---- MODULE Spec2Model ----
(***************************************************************************)
(* Model of the Catan rule engine (packages/shared/src/engine) and of the  *)
(* room that owns a game (packages/server/src/game-room.ts).               *)
(*                                                                         *)
(* Coordinates are tuples <<q, r, s, dir>>; a Map key of the source        *)
(* ("q,r,s,dir") is the tuple itself, and the order of two keys is the     *)
(* order of their serialized strings, character by character.              *)
(***************************************************************************)
EXTENDS Integers, Sequences, FiniteSets, TLC

\* ===================================================================
\* Generic helpers
\* ===================================================================

RECURSIVE SumOver(_, _)
SumOver(S, f) ==
  IF S = {} THEN 0
  ELSE LET x == CHOOSE y \in S : TRUE IN f[x] + SumOver(S \ {x}, f)

SeqToSet(sq) == {sq[i] : i \in 1..Len(sq)}

Min2(a, b) == IF a < b THEN a ELSE b

\* ===================================================================
\* types/coordinates.ts : serialization
\* ===================================================================

\* Character codes of the decimal text of a one-digit integer ("-" is 45).
NumChars(n) == IF n < 0 THEN <<45, 48 - n>> ELSE <<48 + n>>

\* Character codes of a direction name.
DirChars(d) ==
  CASE d = "N" -> <<78>>
    [] d = "S" -> <<83>>
    [] d = "E" -> <<69>>
    [] d = "NE" -> <<78, 69>>
    [] d = "SE" -> <<83, 69>>

\* `${q},${r},${s},${dir}` as character codes ("," is 44).
serializeVertex(v) ==
  NumChars(v[1]) \o <<44>> \o NumChars(v[2]) \o <<44>> \o NumChars(v[3])
    \o <<44>> \o DirChars(v[4])

\* String order of JavaScript's default sort: by code unit, a proper prefix first.
RECURSIVE StrLess(_, _)
StrLess(a, b) ==
  IF b = <<>> THEN FALSE
  ELSE IF a = <<>> THEN TRUE
  ELSE IF a[1] # b[1] THEN a[1] < b[1]
  ELSE StrLess(Tail(a), Tail(b))

\* ===================================================================
\* constants/board-layout.ts
\* ===================================================================

HEX_POSITIONS ==
  << <<0, 0, 0>>,
     <<1, -1, 0>>, <<1, 0, -1>>, <<0, 1, -1>>, <<-1, 1, 0>>, <<-1, 0, 1>>, <<0, -1, 1>>,
     <<2, -2, 0>>, <<2, -1, -1>>, <<2, 0, -2>>, <<1, 1, -2>>, <<0, 2, -2>>,
     <<-1, 2, -1>>, <<-2, 2, 0>>, <<-2, 1, 1>>, <<-2, 0, 2>>, <<-1, -1, 2>>,
     <<0, -2, 2>>, <<1, -2, 1>> >>

hexSet == SeqToSet(HEX_POSITIONS)

isValidHex(hex) == hex \in hexSet

\* ===================================================================
\* engine/coordinate-system.ts
\* ===================================================================

hexVertexPositionsRaw(hex) ==
  LET q == hex[1] r == hex[2] s == hex[3] IN
  << <<q, r, s, "N">>, <<q + 1, r - 1, s, "S">>, <<q + 1, r, s - 1, "N">>,
     <<q, r, s, "S">>, <<q - 1, r + 1, s, "N">>, <<q - 1, r, s + 1, "S">> >>

allRepresentationsOfVertex(v) ==
  LET q == v[1] r == v[2] s == v[3] IN
  IF v[4] = "N"
    THEN { v, <<q, r - 1, s + 1, "S">>, <<q + 1, r - 1, s, "S">> }
    ELSE { v, <<q, r + 1, s - 1, "N">>, <<q - 1, r + 1, s, "N">> }

\* keys.sort(); keys[0] : the representation whose string is smallest.
vertexCanonicalKey(v) ==
  LET reps == allRepresentationsOfVertex(v) IN
  CHOOSE k \in reps :
    \A o \in reps \ {k} : StrLess(serializeVertex(k), serializeVertex(o))

hexEdgePositionsRaw(hex) ==
  LET q == hex[1] r == hex[2] s == hex[3] IN
  { <<q, r, s, "NE">>, <<q, r, s, "E">>, <<q, r, s, "SE">>,
    <<q - 1, r + 1, s, "NE">>, <<q - 1, r, s + 1, "E">>, <<q, r - 1, s + 1, "SE">> }

edgeVertices(e) ==
  LET q == e[1] r == e[2] s == e[3] IN
  CASE e[4] = "NE" -> << <<q, r, s, "N">>, <<q + 1, r - 1, s, "S">> >>
    [] e[4] = "E" -> << <<q + 1, r - 1, s, "S">>, <<q + 1, r, s - 1, "N">> >>
    [] e[4] = "SE" -> << <<q + 1, r, s - 1, "N">>, <<q, r, s, "S">> >>

\* The raw vertex positions of the board hexes (the keys of _vertexToCanonical).
RawVertices == UNION { SeqToSet(hexVertexPositionsRaw(h)) : h \in hexSet }

\* buildLookups() : the tables the module computes once and then only reads.
\*   vertexToCanonical : raw vertex -> canonical key
\*   allVertices, allEdges : the keys of _allVertices and _allEdges
\*   vertexToHexes : built under the canonical key of each raw vertex of each hex
\*   hexToVertices : the canonical vertices of the raw positions, duplicates dropped
\*   vertexToEdges : every edge is pushed under the canonical key of each endpoint;
\*     an edge whose two endpoints share a key is pushed twice, and only
\*     membership is read from the list, so a set stands for it
\*   vertexToVertices : for each vertex of allVertices, the other endpoints of
\*     the edges listed under its key
buildLookups ==
  LET canon == [v \in RawVertices |-> vertexCanonicalKey(v)]
      vertices == { canon[v] : v \in RawVertices }
      edges == UNION { hexEdgePositionsRaw(h) : h \in hexSet }
      ends == [e \in edges |->
                 << IF edgeVertices(e)[1] \in RawVertices
                      THEN canon[edgeVertices(e)[1]]
                      ELSE vertexCanonicalKey(edgeVertices(e)[1]),
                    IF edgeVertices(e)[2] \in RawVertices
                      THEN canon[edgeVertices(e)[2]]
                      ELSE vertexCanonicalKey(edgeVertices(e)[2]) >>]
      edgeKeys == { ends[e][1] : e \in edges } \cup { ends[e][2] : e \in edges }
      byVertex == [k \in edgeKeys |-> { e \in edges : ends[e][1] = k \/ ends[e][2] = k }]
  IN [vertexToCanonical |-> canon,
      allVertices |-> vertices,
      allEdges |-> edges,
      vertexToHexes |->
        [k \in vertices |->
           { h \in hexSet : \E v \in SeqToSet(hexVertexPositionsRaw(h)) : canon[v] = k }],
      hexToVertices |->
        [h \in hexSet |-> { canon[v] : v \in SeqToSet(hexVertexPositionsRaw(h)) }],
      vertexToEdges |-> byVertex,
      vertexToVertices |->
        [k \in vertices |->
           IF k \in edgeKeys
             THEN { w \in edgeKeys :
                      w # k /\ \E e \in byVertex[k] : ends[e][1] = w \/ ends[e][2] = w }
             ELSE {}]]

VARIABLE
  lookups      \* the module-level tables of coordinate-system.ts, once built

canonicalizeVertex(v) ==
  IF v \in DOMAIN lookups.vertexToCanonical
    THEN lookups.vertexToCanonical[v]
    ELSE vertexCanonicalKey(v)

allVertexCoords == lookups.allVertices

allEdgeCoords == lookups.allEdges

edgeAdjacentVertices(e) ==
  << canonicalizeVertex(edgeVertices(e)[1]), canonicalizeVertex(edgeVertices(e)[2]) >>

hexVertices(hex) ==
  IF hex \in DOMAIN lookups.hexToVertices THEN lookups.hexToVertices[hex] ELSE {}

\* _hexToEdges : the six raw edge positions of the hex, duplicates dropped.
hexEdges(hex) ==
  IF hex \in hexSet THEN hexEdgePositionsRaw(hex) ELSE {}

vertexAdjacentHexes(v) ==
  IF canonicalizeVertex(v) \in DOMAIN lookups.vertexToHexes
    THEN lookups.vertexToHexes[canonicalizeVertex(v)]
    ELSE {}

vertexAdjacentVertices(v) ==
  IF canonicalizeVertex(v) \in DOMAIN lookups.vertexToVertices
    THEN lookups.vertexToVertices[canonicalizeVertex(v)]
    ELSE {}

vertexAdjacentEdges(v) ==
  IF canonicalizeVertex(v) \in DOMAIN lookups.vertexToEdges
    THEN lookups.vertexToEdges[canonicalizeVertex(v)]
    ELSE {}

\* resolvePortVertices : the two corners of a port edge, canonicalized.
edgeVertexIndices(edge) ==
  CASE edge = "NE" -> <<1, 2>>
    [] edge = "E" -> <<2, 3>>
    [] edge = "SE" -> <<3, 4>>
    [] edge = "SW" -> <<4, 5>>
    [] edge = "W" -> <<5, 6>>
    [] edge = "NW" -> <<6, 1>>

resolvePortVertices(hex, edge) ==
  LET verts == hexVertexPositionsRaw(hex) IN
  << canonicalizeVertex(verts[edgeVertexIndices(edge)[1]]),
     canonicalizeVertex(verts[edgeVertexIndices(edge)[2]]) >>

\* ===================================================================
\* types/resources.ts, types/board.ts, constants/costs.ts, types/cards.ts
\* ===================================================================

RESOURCE_TYPES == <<"wood", "brick", "sheep", "wheat", "ore">>

ResourceTypes == SeqToSet(RESOURCE_TYPES)

EMPTY_BUNDLE == [wood |-> 0, brick |-> 0, sheep |-> 0, wheat |-> 0, ore |-> 0]

addBundles(a, b) == [r \in ResourceTypes |-> a[r] + b[r]]

subtractBundles(a, b) == [r \in ResourceTypes |-> a[r] - b[r]]

hasResources(have, need) == \A r \in ResourceTypes : have[r] >= need[r]

bundleTotal(b) == b.wood + b.brick + b.sheep + b.wheat + b.ore

addResourceToBundle(bundle, resource, amount) ==
  [bundle EXCEPT ![resource] = bundle[resource] + amount]

TERRAIN_RESOURCE(terrain) ==
  CASE terrain = "forest" -> "wood"
    [] terrain = "pasture" -> "sheep"
    [] terrain = "fields" -> "wheat"
    [] terrain = "hills" -> "brick"
    [] terrain = "mountains" -> "ore"

BUILDING_COSTS ==
  [road |-> [EMPTY_BUNDLE EXCEPT !.wood = 1, !.brick = 1],
   settlement |-> [EMPTY_BUNDLE EXCEPT !.wood = 1, !.brick = 1, !.sheep = 1, !.wheat = 1],
   city |-> [EMPTY_BUNDLE EXCEPT !.wheat = 2, !.ore = 3],
   devCard |-> [EMPTY_BUNDLE EXCEPT !.sheep = 1, !.wheat = 1, !.ore = 1]]

INITIAL_PIECES == [roads |-> 15, settlements |-> 5, cities |-> 4]

LONGEST_ROAD_MINIMUM == 5
LARGEST_ARMY_MINIMUM == 3
VP_TO_WIN == 10
VP_SETTLEMENT == 1
VP_CITY == 2
VP_LONGEST_ROAD == 2
VP_LARGEST_ARMY == 2
VP_DEV_CARD == 1
ROBBER_DISCARD_THRESHOLD == 7
BANK_RESOURCE_COUNT == 19

DEV_CARD_DISTRIBUTION ==
  [knight |-> 14, victoryPoint |-> 5, roadBuilding |-> 2, yearOfPlenty |-> 2, monopoly |-> 2]

DevCardTypes == {"knight", "victoryPoint", "roadBuilding", "yearOfPlenty", "monopoly"}

PORT_POSITIONS ==
  << [hex |-> <<2, -2, 0>>, edge |-> "NE"],
     [hex |-> <<2, -1, -1>>, edge |-> "E"],
     [hex |-> <<2, 0, -2>>, edge |-> "SE"],
     [hex |-> <<0, 2, -2>>, edge |-> "SE"],
     [hex |-> <<-1, 2, -1>>, edge |-> "SW"],
     [hex |-> <<-2, 2, 0>>, edge |-> "SW"],
     [hex |-> <<-2, 0, 2>>, edge |-> "NW"],
     [hex |-> <<-1, -1, 2>>, edge |-> "NW"],
     [hex |-> <<1, -2, 1>>, edge |-> "NE"] >>

\* ===================================================================
\* engine/board-generator.ts
\* ===================================================================

hexNeighbors(hex) ==
  { <<hex[1] + d[1], hex[2] + d[2], hex[3] + d[3]>> :
      d \in { <<1, -1, 0>>, <<1, 0, -1>>, <<0, 1, -1>>,
              <<-1, 1, 0>>, <<-1, 0, 1>>, <<0, -1, 1>> } }

hexBoardNeighbors(hex) == { n \in hexNeighbors(hex) : isValidHex(n) }

check68Constraint(hexes) ==
  \A h \in DOMAIN hexes :
    hexes[h].numberToken \in {6, 8} =>
      \A n \in hexBoardNeighbors(h) : hexes[n].numberToken \notin {6, 8}

\* The number of desert hexes among the first i positions (tokenIndex skips them).
RECURSIVE desertsBefore(_, _)
desertsBefore(terrains, i) ==
  IF i = 0 THEN 0
  ELSE desertsBefore(terrains, i - 1) + (IF terrains[i] = "desert" THEN 1 ELSE 0)

\* One attempt of step 2: the tokens of one shuffle of NUMBER_TOKEN_SET dealt
\* to the non-desert hexes in the order of HEX_POSITIONS (0 stands for null).
dealTokens(terrains, numberTokens) ==
  [h \in hexSet |->
     LET i == CHOOSE j \in 1..Len(HEX_POSITIONS) : HEX_POSITIONS[j] = h IN
     [terrain |-> terrains[i],
      numberToken |->
        IF terrains[i] = "desert" THEN 0
        ELSE numberTokens[i - desertsBefore(terrains, i)]]]

\* The n-th value of a run of draws; the last value given stands for all the
\* later ones.
drawAt(draws, n) == draws[IF n <= Len(draws) THEN n ELSE Len(draws)]

maxAttempts == 1000
maxPasses == 100

\* The hexes in the order the Map is iterated (the order of HEX_POSITIONS)
\* that bear a 6 or an 8 and have a board neighbour that bears one.
offenders(hexes) ==
  SelectSeq(HEX_POSITIONS,
            LAMBDA h : /\ hexes[h].numberToken \in {6, 8}
                       /\ \E n \in hexBoardNeighbors(h) : hexes[n].numberToken \in {6, 8})

\* swapCandidates : the hexes with a token other than 6 and 8, in Map order.
swapCandidates(hexes) ==
  SelectSeq(HEX_POSITIONS, LAMBDA h : hexes[h].numberToken \notin {0, 6, 8})

\* The swap of the number tokens of two hexes.
swapTokens(hexes, key, swapKey) ==
  [hexes EXCEPT ![key].numberToken = hexes[swapKey].numberToken,
                ![swapKey].numberToken = hexes[key].numberToken]

\* fixConstraint from pass iter on: each pass swaps the token of the first
\* offender with that of the candidate rng.nextInt picks (swaps(k) is the
\* draw of the k-th swap, an index into the candidates), and the loop ends
\* when a pass finds no offender, when the constraint holds after the swap,
\* or after maxPasses passes.
RECURSIVE fixConstraintFrom(_, _, _)
fixConstraintFrom(hexes, swaps, iter) ==
  IF iter >= maxPasses \/ offenders(hexes) = << >> THEN hexes
  ELSE IF swapCandidates(hexes) = << >>
    THEN fixConstraintFrom(hexes, swaps, iter + 1)
  ELSE IF check68Constraint(
            swapTokens(hexes, offenders(hexes)[1],
                       swapCandidates(hexes)[drawAt(swaps, iter + 1) + 1]))
    THEN swapTokens(hexes, offenders(hexes)[1],
                    swapCandidates(hexes)[drawAt(swaps, iter + 1) + 1])
  ELSE fixConstraintFrom(
         swapTokens(hexes, offenders(hexes)[1],
                    swapCandidates(hexes)[drawAt(swaps, iter + 1) + 1]),
         swaps, iter + 1)

fixConstraint(hexes, swaps) == fixConstraintFrom(hexes, swaps, 0)

\* Step 2 of generateBoard, the do-while: the first of the maxAttempts
\* shuffles whose deal satisfies the constraint is taken; if none does, the
\* deal of the last attempt is handed to fixConstraint.
generateHexes(terrains, shuffles, swaps) ==
  IF \E n \in 1..maxAttempts : check68Constraint(dealTokens(terrains, drawAt(shuffles, n)))
    THEN dealTokens(terrains,
           drawAt(shuffles,
                  CHOOSE n \in 1..maxAttempts :
                    /\ check68Constraint(dealTokens(terrains, drawAt(shuffles, n)))
                    /\ \A m \in 1..(n - 1) :
                         ~check68Constraint(dealTokens(terrains, drawAt(shuffles, m)))))
    ELSE fixConstraint(dealTokens(terrains, drawAt(shuffles, maxAttempts)), swaps)

\* generateBoard, given what it draws from the generator: terrains (the
\* shuffled terrain pool, in the order of HEX_POSITIONS), shuffles (the
\* shuffle of NUMBER_TOKEN_SET of each attempt), swaps (the indexes drawn by
\* the repair) and portTypes (the shuffled PORT_TYPES_SET).
generateBoard(terrains, shuffles, swaps, portTypes) ==
  [hexes |-> generateHexes(terrains, shuffles, swaps),
   ports |->
     [i \in 1..Len(PORT_POSITIONS) |->
        [vertices |-> resolvePortVertices(PORT_POSITIONS[i].hex, PORT_POSITIONS[i].edge),
         type |-> portTypes[i],
         ratio |-> IF portTypes[i] = "generic" THEN 3 ELSE 2]],
   buildings |-> [k \in {} |-> 0],
   roads |-> [k \in {} |-> 0],
   robberHex |->
     HEX_POSITIONS[CHOOSE i \in 1..Len(HEX_POSITIONS) :
                     /\ terrains[i] = "desert"
                     /\ \A j \in 1..(i - 1) : terrains[j] # "desert"]]

\* ===================================================================
\* State
\* ===================================================================

VARIABLES
  room,        \* the GameRoom : its fields gameState and status
  scenario,    \* which repertoire of messages the clients of this run send
  server,      \* the CatanServer : its lobby, its connections, what it last sent
  clock,       \* the wall clock of the host, what Date.now() returns
  earlier      \* a call of dispatch made at an earlier time: its arguments, its result

vars == <<room, scenario, lookups, server, clock, earlier>>

\* No call of dispatch is remembered.
NoCall == << >>

\* GameRoom.gameState : the GameState value the room holds.
gameState == room.gameState

\* GameRoom.status : "waiting", "in_progress" or "finished".
status == room.status

\* Absent values of the source: null winner, undefined vertex, null dice roll.
NoPlayer == -1
NoVertex == <<>>
NoDice == <<>>

EmptyMap == [k \in {} |-> 0]

MapSet(m, k, v) == [x \in DOMAIN m \cup {k} |-> IF x = k THEN v ELSE m[x]]

MapDelete(m, k) == [x \in DOMAIN m \ {k} |-> m[x]]

MaxOf(S) == CHOOSE x \in S : \A y \in S : y <= x

\* ===================================================================
\* engine/state-helpers.ts
\* ===================================================================

\* { ...record, ...updates }
Merge(record, updates) ==
  [f \in DOMAIN record |-> IF f \in DOMAIN updates THEN updates[f] ELSE record[f]]

updatePlayer(state, playerId, updates) ==
  [state EXCEPT !.players =
     [i \in DOMAIN state.players |->
        IF state.players[i].id = playerId
          THEN Merge(state.players[i], updates)
          ELSE state.players[i]]]

updateTurnState(state, updates) ==
  [state EXCEPT !.turnState = Merge(state.turnState, updates)]

updateBoard(state, updates) ==
  [state EXCEPT !.board = Merge(state.board, updates)]

addBankResources(state, bundle) ==
  [state EXCEPT !.bankResources = addBundles(state.bankResources, bundle)]

removeBankResources(state, bundle) ==
  [state EXCEPT !.bankResources = subtractBundles(state.bankResources, bundle)]

\* state.players.find((p) => p.id === playerId)
getPlayer(state, playerId) ==
  state.players[CHOOSE i \in DOMAIN state.players : state.players[i].id = playerId]

hasPlayer(state, playerId) ==
  \E i \in DOMAIN state.players : state.players[i].id = playerId

getCurrentPlayer(state) == state.players[state.turnState.currentPlayerIndex]

givePlayerResources(state, playerId, bundle) ==
  removeBankResources(
    updatePlayer(state, playerId,
      [resources |-> addBundles(getPlayer(state, playerId).resources, bundle)]),
    bundle)

takePlayerResources(state, playerId, bundle) ==
  addBankResources(
    updatePlayer(state, playerId,
      [resources |-> subtractBundles(getPlayer(state, playerId).resources, bundle)]),
    bundle)

placeBuilding(state, vertexKey, building) ==
  updateBoard(state, [buildings |-> MapSet(state.board.buildings, vertexKey, building)])

placeRoad(state, edgeKey, road) ==
  updateBoard(state, [roads |-> MapSet(state.board.roads, edgeKey, road)])

upgradeBuilding(state, vertexKey, newType) ==
  IF vertexKey \notin DOMAIN state.board.buildings THEN state
  ELSE updateBoard(state,
         [buildings |->
            MapSet(state.board.buildings, vertexKey,
                   [state.board.buildings[vertexKey] EXCEPT !.type = newType])])

\* The log keeps the type and the timestamp of each event, the reading of the
\* wall clock at the call; message and data are not kept.
addLogEntry(state, type) ==
  [state EXCEPT !.log = Append(state.log, [type |-> type, timestamp |-> clock])]

transferResources(state, fromPlayerId, toPlayerId, bundle) ==
  LET from == getPlayer(state, fromPlayerId)
      to == getPlayer(state, toPlayerId)
      result == updatePlayer(state, fromPlayerId,
                  [resources |-> subtractBundles(from.resources, bundle)])
  IN updatePlayer(result, toPlayerId, [resources |-> addBundles(to.resources, bundle)])

bankHasResources(state, bundle) ==
  \A r \in ResourceTypes : state.bankResources[r] >= bundle[r]

\* ===================================================================
\* engine/road-calculator.ts
\* ===================================================================

\* const nextVertex = serializeVertex(v1) === serializeVertex(vertex) ? v2 : v1
nextVertexOf(ends, vertex) == IF ends[1] = vertex THEN ends[2] ELSE ends[1]

\* An enemy building blocks passage at the vertex.
isBlocked(state, playerId, v) ==
  /\ v \in DOMAIN state.board.buildings
  /\ state.board.buildings[v].playerId # playerId

\* The edges the loop of dfs does not skip.
dfsEdges(state, playerId, vertex, visited) ==
  { e \in vertexAdjacentEdges(vertex) :
      /\ e \in DOMAIN state.board.roads
      /\ state.board.roads[e].playerId = playerId
      /\ e \notin visited
      /\ ~isBlocked(state, playerId, nextVertexOf(edgeAdjacentVertices(e), vertex)) }

\* The largest length that this call of dfs, and the calls below it, give to
\* maxLength; length is the number of visited edges.
RECURSIVE dfs(_, _, _, _)
dfs(state, playerId, vertex, visited) ==
  MaxOf({ Cardinality(visited) } \cup
        { dfs(state, playerId, nextVertexOf(edgeAdjacentVertices(e), vertex),
              visited \cup {e}) :
            e \in dfsEdges(state, playerId, vertex, visited) })

\* maxLength starts at 0; dfs starts from both ends of each road of the player.
calculateLongestRoad(state, playerId) ==
  MaxOf({ 0 } \cup
        UNION { { dfs(state, playerId, v, {e}) : v \in SeqToSet(edgeAdjacentVertices(e)) } :
                e \in { k \in DOMAIN state.board.roads :
                          state.board.roads[k].playerId = playerId } })


\* The second half of updateLongestRoad : who holds the longest road, given
\* each player's road length (index i is the player at state.players[i]).
awardLongestRoad(state, roadLengths) ==
  LET idx == DOMAIN state.players
      holders == { i \in idx : state.players[i].hasLongestRoad }
      maxLength == MaxOf({ roadLengths[i] : i \in idx })
      playersWithMax == { i \in idx : roadLengths[i] = maxLength }
      first(S) == CHOOSE i \in S : \A j \in S : i <= j
      newHolderId ==
        IF holders # {}
          THEN IF roadLengths[first(holders)] = maxLength
                 THEN state.players[first(holders)].id
               ELSE IF Cardinality(playersWithMax) = 1
                 THEN state.players[first(playersWithMax)].id
               ELSE NoPlayer
          ELSE IF Cardinality(playersWithMax) = 1
                 THEN state.players[first(playersWithMax)].id
               ELSE NoPlayer
  IN [state EXCEPT !.players =
        [i \in idx |-> [state.players[i] EXCEPT
                          !.roadLength = roadLengths[i],
                          !.hasLongestRoad =
                            IF maxLength < LONGEST_ROAD_MINIMUM
                              THEN FALSE
                              ELSE state.players[i].id = newHolderId]]]

updateLongestRoad(state) ==
  awardLongestRoad(state,
    [i \in DOMAIN state.players |-> calculateLongestRoad(state, state.players[i].id)])

\* ===================================================================
\* engine/game-engine.ts : createGameState
\* ===================================================================

\* A setup order in which the second round runs forward like the first.
generateSetupOrderForward(playerCount) ==
  [k \in 1..(2 * playerCount) |->
     IF k <= playerCount THEN k - 1 ELSE k - playerCount - 1]

\* engine/setup-phase.ts : generateSetupOrder (0-based player indices, snake order)
generateSetupOrder(playerCount) ==
  [k \in 1..(2 * playerCount) |->
     IF k <= playerCount THEN k - 1 ELSE 2 * playerCount - k]

\* The identifier of the player at index i (the room hands out distinct ids).
PlayerId(i) == i

\* playerIds lists playerInfos.map((info) => info.id), from index 0; board and
\* devCardDeck are the results of generateBoard(seed) and of
\* rng.shuffle(createDevCardDeck()).
createGameState(playerIds, board, devCardDeck) ==
  LET state ==
        [board |-> board,
         players |->
           [i \in DOMAIN playerIds |->
              [id |-> playerIds[i],
               resources |-> EMPTY_BUNDLE,
               devCards |-> <<>>,
               knightsPlayed |-> 0,
               hasLongestRoad |-> FALSE,
               hasLargestArmy |-> FALSE,
               roadLength |-> 0,
               settlementsRemaining |-> INITIAL_PIECES.settlements,
               citiesRemaining |-> INITIAL_PIECES.cities,
               roadsRemaining |-> INITIAL_PIECES.roads,
               portsAccess |-> {},
               connected |-> TRUE]],
         turnState |->
           [currentPlayerIndex |-> 0,
            phase |-> "SETUP",
            setupSubPhase |-> "PLACE_SETTLEMENT",
            mainSubPhase |-> "undefined",
            setupRound |-> 0,
            setupOrder |-> generateSetupOrder(Cardinality(DOMAIN playerIds)),
            setupStep |-> 0,
            turnNumber |-> 0,
            diceRoll |-> NoDice,
            devCardPlayedThisTurn |-> FALSE,
            devCardBoughtThisTurn |-> FALSE,
            pendingDiscards |-> EmptyMap,
            roadBuildingRoadsLeft |-> 0,
            mustStealFrom |-> {},
            lastSettlementVertex |-> NoVertex],
         devCardDeck |-> devCardDeck,
         tradeOffers |-> <<>>,
         winner |-> NoPlayer,
         log |-> <<>>,
         bankResources |-> [r \in ResourceTypes |-> BANK_RESOURCE_COUNT]]
  IN addLogEntry(state, "GAME_START")

\* A validation result.
\* A validation result; args holds the values a reason text interpolates.
Valid == [valid |-> TRUE, reason |-> "", args |-> <<>>]

Invalid(reason) == [valid |-> FALSE, reason |-> reason, args |-> <<>>]

InvalidWith(reason, args) == [valid |-> FALSE, reason |-> reason, args |-> args]

\* ===================================================================
\* engine/move-validator.ts : setup phase
\* ===================================================================

validateSetupSettlement(state, action) ==
  LET vertex == canonicalizeVertex(action.vertex)
      player == getPlayer(state, action.playerId)
  IN IF vertex \notin allVertexCoords
       THEN Invalid("Invalid vertex position")
     ELSE IF vertex \in DOMAIN state.board.buildings
       THEN Invalid("This intersection is already occupied")
     ELSE IF \E adjV \in vertexAdjacentVertices(vertex) :
               adjV \in DOMAIN state.board.buildings
       THEN Invalid("Too close to another settlement (distance rule)")
     ELSE IF player.settlementsRemaining <= 0
       THEN Invalid("No settlements remaining")
     ELSE Valid

validateSetupRoad(state, action) ==
  LET edge == action.edge
      lastVertex == state.turnState.lastSettlementVertex
      player == getPlayer(state, action.playerId)
  IN IF edge \notin allEdgeCoords
       THEN Invalid("Invalid edge position")
     ELSE IF edge \in DOMAIN state.board.roads
       THEN Invalid("This edge already has a road")
     ELSE IF lastVertex = NoVertex
       THEN Invalid("No settlement was placed before the road")
     ELSE IF /\ edgeAdjacentVertices(edge)[1] # lastVertex
             /\ edgeAdjacentVertices(edge)[2] # lastVertex
       THEN Invalid("Road must connect to your just-placed settlement")
     ELSE IF player.roadsRemaining <= 0
       THEN Invalid("No roads remaining")
     ELSE Valid

validateSetupAction(state, action) ==
  LET turnState == state.turnState
      currentPlayerIdx == turnState.setupOrder[turnState.setupStep + 1]
      currentPlayer == state.players[currentPlayerIdx]
  IN IF action.playerId # currentPlayer.id
       THEN Invalid("It's not your turn")
     ELSE IF turnState.setupSubPhase = "PLACE_SETTLEMENT"
       THEN IF action.type # "PLACE_SETTLEMENT"
              THEN Invalid("You must place a settlement")
              ELSE validateSetupSettlement(state, action)
     ELSE IF turnState.setupSubPhase = "PLACE_ROAD"
       THEN IF action.type # "PLACE_ROAD"
              THEN Invalid("You must place a road")
              ELSE validateSetupRoad(state, action)
     ELSE Invalid("Invalid setup phase")

\* ===================================================================
\* engine/setup-phase.ts
\* ===================================================================

updatePortAccess(state, playerId, vertex) ==
  LET player == getPlayer(state, playerId)
      newPorts ==
        player.portsAccess \cup
          { state.board.ports[i].type : i \in { j \in DOMAIN state.board.ports :
              vertex = state.board.ports[j].vertices[1]
                \/ vertex = state.board.ports[j].vertices[2] } }
  IN IF Cardinality(newPorts) # Cardinality(player.portsAccess)
       THEN updatePlayer(state, playerId, [portsAccess |-> newPorts])
       ELSE state

handleSetupSettlement(state, action) ==
  LET vertex == canonicalizeVertex(action.vertex)
      player == getPlayer(state, action.playerId)
      r1 == placeBuilding(state, vertex, [type |-> "settlement", playerId |-> action.playerId])
      r2 == updatePlayer(r1, action.playerId,
              [settlementsRemaining |-> player.settlementsRemaining - 1])
      r3 == updatePortAccess(r2, action.playerId, vertex)
      r4 == updateTurnState(r3,
              [lastSettlementVertex |-> vertex, setupSubPhase |-> "PLACE_ROAD"])
  IN addLogEntry(r4, "PLACE_SETTLEMENT")

grantStartingResources(state, playerId, vertexKey) ==
  LET give(bundle) ==
        IF bundleTotal(bundle) > 0
          THEN addLogEntry(givePlayerResources(state, playerId, bundle),
                           "STARTING_RESOURCES")
          ELSE givePlayerResources(state, playerId, bundle)
  IN give([r \in ResourceTypes |->
             Cardinality({ h \in vertexAdjacentHexes(vertexKey) :
               /\ state.board.hexes[h].terrain # "desert"
               /\ TERRAIN_RESOURCE(state.board.hexes[h].terrain) = r })])

advanceSetupStep(state) ==
  LET nextStep == state.turnState.setupStep + 1
      totalSteps == Len(state.turnState.setupOrder)
  IN IF nextStep >= totalSteps
       THEN updateTurnState(state,
              [phase |-> "MAIN",
               mainSubPhase |-> "ROLL_DICE",
               setupSubPhase |-> "undefined",
               lastSettlementVertex |-> NoVertex,
               currentPlayerIndex |-> 0,
               turnNumber |-> 1])
       ELSE updateTurnState(state,
              [setupStep |-> nextStep,
               setupRound |-> IF nextStep >= Cardinality(DOMAIN state.players) THEN 1 ELSE 0,
               setupSubPhase |-> "PLACE_SETTLEMENT",
               lastSettlementVertex |-> NoVertex,
               currentPlayerIndex |-> state.turnState.setupOrder[nextStep + 1]])

handleSetupRoad(state, action) ==
  LET player == getPlayer(state, action.playerId)
      isSecondRound == state.turnState.setupStep >= Cardinality(DOMAIN state.players)
      granted(result) ==
        IF isSecondRound /\ state.turnState.lastSettlementVertex # NoVertex
          THEN grantStartingResources(result, action.playerId,
                                      state.turnState.lastSettlementVertex)
          ELSE result
  IN advanceSetupStep(
       granted(
         updateLongestRoad(
           addLogEntry(
             updatePlayer(
               placeRoad(state, action.edge, [playerId |-> action.playerId]),
               action.playerId, [roadsRemaining |-> player.roadsRemaining - 1]),
             "PLACE_ROAD"))))

handleSetupAction(state, action) ==
  CASE action.type = "PLACE_SETTLEMENT" -> handleSetupSettlement(state, action)
    [] action.type = "PLACE_ROAD" -> handleSetupRoad(state, action)
    [] OTHER -> state

\* ===================================================================
\* engine/trade-validator.ts
\* ===================================================================

getTradeRatio(state, playerId, resource) ==
  LET player == getPlayer(state, playerId) IN
  IF resource \in player.portsAccess THEN 2
  ELSE IF "generic" \in player.portsAccess THEN 3
  ELSE 4

\* RESOURCE_TYPES.filter(...)[0] : the first resource type, in the order of
\* RESOURCE_TYPES, with a positive entry.
FirstPositive(bundle) ==
  RESOURCE_TYPES[CHOOSE i \in 1..Len(RESOURCE_TYPES) :
                   /\ bundle[RESOURCE_TYPES[i]] > 0
                   /\ \A j \in 1..(i - 1) : bundle[RESOURCE_TYPES[j]] <= 0]

validateBankTrade(state, playerId, giving, receiving) ==
  LET player == getPlayer(state, playerId)
      receivingTypes == { r \in ResourceTypes : receiving[r] > 0 }
      givingTypes == { r \in ResourceTypes : giving[r] > 0 }
  IN IF Cardinality(receivingTypes) # 1
       THEN Invalid("Must receive exactly one type of resource")
     ELSE IF receiving[FirstPositive(receiving)] # 1
       THEN Invalid("Must receive exactly 1 resource")
     ELSE IF Cardinality(givingTypes) # 1
       THEN Invalid("Must give exactly one type of resource")
     ELSE LET givingType == FirstPositive(giving)
              requiredRatio == getTradeRatio(state, playerId, givingType)
          IN IF giving[givingType] # requiredRatio
               THEN InvalidWith("Must give exactly the required ratio",
                                <<requiredRatio, givingType>>)
             ELSE IF givingType = FirstPositive(receiving)
               THEN Invalid("Cannot trade a resource for the same type")
             ELSE IF ~hasResources(player.resources, giving)
               THEN Invalid("You don't have enough resources to trade")
             ELSE IF ~bankHasResources(state, receiving)
               THEN Invalid("Bank doesn't have enough of that resource")
             ELSE Valid

executeBankTrade(state, playerId, giving, receiving) ==
  addLogEntry(
    givePlayerResources(takePlayerResources(state, playerId, giving), playerId, receiving),
    "BANK_TRADE")

createTradeOffer(state, fromPlayerId, offering, requesting, tradeId) ==
  LET offer ==
        [id |-> tradeId,
         fromPlayerId |-> fromPlayerId,
         offering |-> offering,
         requesting |-> requesting,
         responses |->
           [q \in { state.players[i].id : i \in DOMAIN state.players } \ {fromPlayerId}
              |-> "pending"],
         status |-> "open"]
  IN addLogEntry([state EXCEPT !.tradeOffers = Append(state.tradeOffers, offer)],
                 "PROPOSE_TRADE")

\* tradeOffers.findIndex((o) => o.id === tradeId), 0 when there is none.
findOfferIndex(state, tradeId) ==
  IF \E i \in 1..Len(state.tradeOffers) : state.tradeOffers[i].id = tradeId
    THEN CHOOSE i \in 1..Len(state.tradeOffers) :
           /\ state.tradeOffers[i].id = tradeId
           /\ \A j \in 1..(i - 1) : state.tradeOffers[j].id # tradeId
    ELSE 0

respondToTrade(state, responderId, tradeId, accept) ==
  LET offerIndex == findOfferIndex(state, tradeId) IN
  IF offerIndex = 0 THEN state
  ELSE [state EXCEPT !.tradeOffers[offerIndex].responses =
          MapSet(state.tradeOffers[offerIndex].responses, responderId,
                 IF accept THEN "accepted" ELSE "rejected")]

confirmTrade(state, tradeId, withPlayerId) ==
  LET offerIndex == findOfferIndex(state, tradeId) IN
  IF offerIndex = 0 THEN state
  ELSE LET offer == state.tradeOffers[offerIndex]
           r1 == transferResources(state, offer.fromPlayerId, withPlayerId, offer.offering)
           r2 == transferResources(r1, withPlayerId, offer.fromPlayerId, offer.requesting)
           r3 == [r2 EXCEPT !.tradeOffers[offerIndex].status = "executed"]
       IN addLogEntry(r3, "TRADE_EXECUTED")

cancelTrade(state, tradeId) ==
  LET offerIndex == findOfferIndex(state, tradeId) IN
  IF offerIndex = 0 THEN state
  ELSE [state EXCEPT !.tradeOffers[offerIndex].status = "cancelled"]

\* ===================================================================
\* engine/move-validator.ts : main phase
\* ===================================================================

validateDiscard(state, action) ==
  LET pending == state.turnState.pendingDiscards IN
  IF action.playerId \notin DOMAIN pending
    THEN Invalid("You don't need to discard")
  ELSE IF bundleTotal(action.resources) # pending[action.playerId]
    THEN InvalidWith("You must discard exactly the required count",
                     <<pending[action.playerId], bundleTotal(action.resources)>>)
  ELSE IF ~hasResources(getPlayer(state, action.playerId).resources, action.resources)
    THEN Invalid("You don't have those resources to discard")
  ELSE IF \E r \in ResourceTypes : action.resources[r] < 0
    THEN Invalid("Cannot discard negative resources")
  ELSE Valid

validateMoveRobber(state, action) ==
  IF ~isValidHex(action.hex)
    THEN Invalid("Invalid hex position")
  ELSE IF action.hex = state.board.robberHex
    THEN Invalid("Robber must move to a different hex")
  ELSE Valid

validateSteal(state, action) ==
  IF action.targetPlayerId \notin state.turnState.mustStealFrom
    THEN Invalid("Cannot steal from that player")
    ELSE Valid

validatePlaceSettlement(state, action) ==
  LET player == getPlayer(state, action.playerId)
      vertex == canonicalizeVertex(action.vertex)
  IN IF vertex \notin allVertexCoords
       THEN Invalid("Invalid vertex position")
     ELSE IF vertex \in DOMAIN state.board.buildings
       THEN Invalid("This intersection is already occupied")
     ELSE IF \E adjV \in vertexAdjacentVertices(vertex) :
               adjV \in DOMAIN state.board.buildings
       THEN Invalid("Too close to another settlement (distance rule)")
     ELSE IF ~ \E e \in vertexAdjacentEdges(vertex) :
                 /\ e \in DOMAIN state.board.roads
                 /\ state.board.roads[e].playerId = action.playerId
       THEN Invalid("Settlement must be connected to your road network")
     ELSE IF ~hasResources(player.resources, BUILDING_COSTS.settlement)
       THEN Invalid("Not enough resources for a settlement")
     ELSE IF player.settlementsRemaining <= 0
       THEN Invalid("No settlements remaining")
     ELSE Valid

\* One endpoint of the loop of validatePlaceRoad: an own building connects, an
\* enemy building blocks, otherwise another own road at the endpoint connects.
roadConnectsAt(state, playerId, edge, v) ==
  IF v \in DOMAIN state.board.buildings
    THEN state.board.buildings[v].playerId = playerId
    ELSE \E adjE \in vertexAdjacentEdges(v) :
           /\ adjE # edge
           /\ adjE \in DOMAIN state.board.roads
           /\ state.board.roads[adjE].playerId = playerId

validatePlaceRoad(state, action, freeRoad) ==
  LET player == getPlayer(state, action.playerId)
      edge == action.edge
      ends == edgeAdjacentVertices(edge)
  IN IF edge \notin allEdgeCoords
       THEN Invalid("Invalid edge position")
     ELSE IF edge \in DOMAIN state.board.roads
       THEN Invalid("This edge already has a road")
     ELSE IF ~ ( \/ roadConnectsAt(state, action.playerId, edge, ends[1])
                 \/ roadConnectsAt(state, action.playerId, edge, ends[2]) )
       THEN Invalid("Road must connect to your road network or building")
     ELSE IF ~freeRoad /\ ~hasResources(player.resources, BUILDING_COSTS.road)
       THEN Invalid("Not enough resources for a road")
     ELSE IF player.roadsRemaining <= 0
       THEN Invalid("No roads remaining")
     ELSE Valid

validatePlaceCity(state, action) ==
  LET player == getPlayer(state, action.playerId)
      vertex == canonicalizeVertex(action.vertex)
  IN IF vertex \notin DOMAIN state.board.buildings
       THEN Invalid("No building at this location")
     ELSE IF state.board.buildings[vertex].playerId # action.playerId
       THEN Invalid("This is not your building")
     ELSE IF state.board.buildings[vertex].type # "settlement"
       THEN Invalid("Already a city")
     ELSE IF ~hasResources(player.resources, BUILDING_COSTS.city)
       THEN Invalid("Not enough resources for a city")
     ELSE IF player.citiesRemaining <= 0
       THEN Invalid("No cities remaining")
     ELSE Valid

validateBuyDevCard(state, action) ==
  LET player == getPlayer(state, action.playerId) IN
  IF Len(state.devCardDeck) = 0
    THEN Invalid("Development card deck is empty")
  ELSE IF ~hasResources(player.resources, BUILDING_COSTS.devCard)
    THEN Invalid("Not enough resources for a development card")
  ELSE Valid

\* A card counts as playable whatever the turn it was acquired in.
hasCardOfType(state, player, type) ==
  \E i \in 1..Len(player.devCards) : player.devCards[i].type = type

\* player.devCards.some((c) => c.type === type && c.turnAcquired < turnNumber)
hasPlayableCard(state, player, type) ==
  \E i \in 1..Len(player.devCards) :
    /\ player.devCards[i].type = type
    /\ player.devCards[i].turnAcquired < state.turnState.turnNumber

\* The bundle of a list of requested resources (Year of Plenty).
bundleOfList(resources) ==
  [r \in ResourceTypes |->
     Cardinality({ i \in 1..Len(resources) : resources[i] = r })]

validatePlayDevCard(state, action) ==
  LET player == getPlayer(state, action.playerId) IN
  IF state.turnState.devCardPlayedThisTurn
    THEN Invalid("You already played a development card this turn")
  ELSE IF action.type = "PLAY_KNIGHT"
    THEN IF ~hasPlayableCard(state, player, "knight")
           THEN Invalid("No playable Knight card")
         ELSE IF ~isValidHex(action.robberHex)
           THEN Invalid("Invalid hex for robber")
         ELSE IF action.robberHex = state.board.robberHex
           THEN Invalid("Robber must move to a different hex")
         ELSE Valid
  ELSE IF action.type = "PLAY_ROAD_BUILDING"
    THEN IF ~hasPlayableCard(state, player, "roadBuilding")
           THEN Invalid("No playable Road Building card")
         ELSE IF player.roadsRemaining <= 0
           THEN Invalid("No road pieces remaining")
         ELSE Valid
  ELSE IF action.type = "PLAY_YEAR_OF_PLENTY"
    THEN IF ~hasPlayableCard(state, player, "yearOfPlenty")
           THEN Invalid("No playable Year of Plenty card")
         ELSE IF Len(action.resources) # 2
           THEN Invalid("Must choose exactly 2 resources")
         ELSE IF \E res \in ResourceTypes :
                   bundleOfList(action.resources)[res] > state.bankResources[res]
           THEN InvalidWith("Bank doesn't have enough",
                  <<FirstPositive([r \in ResourceTypes |->
                      IF bundleOfList(action.resources)[r] > state.bankResources[r]
                        THEN 1 ELSE 0])>>)
         ELSE Valid
  ELSE IF action.type = "PLAY_MONOPOLY"
    THEN IF ~hasPlayableCard(state, player, "monopoly")
           THEN Invalid("No playable Monopoly card")
         ELSE IF action.resource \notin ResourceTypes
           THEN Invalid("Invalid resource type")
         ELSE Valid
  ELSE Invalid("Unknown development card action")

validateProposeTrade(state, action) ==
  LET player == getPlayer(state, action.playerId) IN
  IF ~hasResources(player.resources, action.offering)
    THEN Invalid("You don't have the resources you're offering")
  ELSE IF bundleTotal(action.offering) = 0
    THEN Invalid("Must offer something")
  ELSE IF bundleTotal(action.requesting) = 0
    THEN Invalid("Must request something")
  ELSE IF \E r \in ResourceTypes : action.offering[r] < 0 \/ action.requesting[r] < 0
    THEN Invalid("Resource amounts must be non-negative")
  ELSE Valid

validateRespondToTrade(state, action) ==
  LET offerIndex == findOfferIndex(state, action.tradeId) IN
  IF offerIndex = 0
    THEN Invalid("Trade offer not found")
  ELSE IF state.tradeOffers[offerIndex].status # "open"
    THEN Invalid("Trade offer is no longer open")
  ELSE IF state.tradeOffers[offerIndex].fromPlayerId = action.playerId
    THEN Invalid("Cannot respond to your own offer")
  ELSE IF /\ action.accept
          /\ ~hasResources(getPlayer(state, action.playerId).resources,
                           state.tradeOffers[offerIndex].requesting)
    THEN Invalid("You don't have the requested resources")
  ELSE Valid

\* A confirmation check that never looks at the answer of the counterparty.
validateConfirmTradeUnanswered(state, action) ==
  LET offerIndex == findOfferIndex(state, action.tradeId) IN
  IF offerIndex = 0
    THEN Invalid("Trade offer not found")
  ELSE LET offer == state.tradeOffers[offerIndex] IN
       IF offer.status # "open"
         THEN Invalid("Trade offer is no longer open")
       ELSE IF offer.fromPlayerId # action.playerId
         THEN Invalid("Only the proposer can confirm a trade")
       ELSE IF ~hasResources(getPlayer(state, offer.fromPlayerId).resources, offer.offering)
         THEN Invalid("You no longer have the offered resources")
       ELSE IF ~hasResources(getPlayer(state, action.withPlayerId).resources,
                             offer.requesting)
         THEN Invalid("The other player no longer has the requested resources")
       ELSE Valid

validateConfirmTrade(state, action) ==
  LET offerIndex == findOfferIndex(state, action.tradeId) IN
  IF offerIndex = 0
    THEN Invalid("Trade offer not found")
  ELSE LET offer == state.tradeOffers[offerIndex] IN
       IF offer.status # "open"
         THEN Invalid("Trade offer is no longer open")
       ELSE IF offer.fromPlayerId # action.playerId
         THEN Invalid("Only the proposer can confirm a trade")
       ELSE IF ~ ( /\ action.withPlayerId \in DOMAIN offer.responses
                   /\ offer.responses[action.withPlayerId] = "accepted" )
         THEN Invalid("That player has not accepted")
       ELSE IF ~hasResources(getPlayer(state, offer.fromPlayerId).resources, offer.offering)
         THEN Invalid("You no longer have the offered resources")
       ELSE IF ~hasResources(getPlayer(state, action.withPlayerId).resources,
                             offer.requesting)
         THEN Invalid("The other player no longer has the requested resources")
       ELSE Valid

validateCancelTrade(state, action) ==
  LET offerIndex == findOfferIndex(state, action.tradeId) IN
  IF offerIndex = 0
    THEN Invalid("Trade offer not found")
  ELSE IF state.tradeOffers[offerIndex].fromPlayerId # action.playerId
    THEN Invalid("Only the proposer can cancel a trade")
  ELSE IF state.tradeOffers[offerIndex].status # "open"
    THEN Invalid("Trade offer is not open")
  ELSE Valid

validateBankTradeAction(state, action) ==
  validateBankTrade(state, action.playerId, action.giving, action.receiving)

validateRollDicePhase(state, action) ==
  IF action.type = "PLAY_KNIGHT" THEN validatePlayDevCard(state, action)
  ELSE IF action.type # "ROLL_DICE"
    THEN Invalid("You must roll the dice (or play a Knight)")
  ELSE Valid

validateTradeBuildPlay(state, action) ==
  IF state.turnState.roadBuildingRoadsLeft > 0
    THEN IF action.type # "PLACE_ROAD"
           THEN InvalidWith("You must place more road(s) (Road Building)",
                            <<state.turnState.roadBuildingRoadsLeft>>)
           ELSE validatePlaceRoad(state, action, TRUE)
  ELSE CASE action.type = "PLACE_SETTLEMENT" -> validatePlaceSettlement(state, action)
         [] action.type = "PLACE_ROAD" -> validatePlaceRoad(state, action, FALSE)
         [] action.type = "PLACE_CITY" -> validatePlaceCity(state, action)
         [] action.type = "BUY_DEV_CARD" -> validateBuyDevCard(state, action)
         [] action.type \in {"PLAY_KNIGHT", "PLAY_ROAD_BUILDING",
                             "PLAY_YEAR_OF_PLENTY", "PLAY_MONOPOLY"} ->
              validatePlayDevCard(state, action)
         [] action.type = "PROPOSE_TRADE" -> validateProposeTrade(state, action)
         [] action.type = "CONFIRM_TRADE" -> validateConfirmTrade(state, action)
         [] action.type = "CANCEL_TRADE" -> validateCancelTrade(state, action)
         [] action.type = "BANK_TRADE" -> validateBankTradeAction(state, action)
         [] action.type = "END_TURN" -> Valid
         [] OTHER -> Invalid("Invalid action for this phase")

\* A main-phase validator that does not ask whose turn it is.
validateMainActionAnyone(state, action) ==
  IF action.type = "DISCARD_RESOURCES"
    THEN IF state.turnState.mainSubPhase # "DISCARD"
           THEN Invalid("Not in discard phase")
           ELSE validateDiscard(state, action)
  ELSE IF action.type = "RESPOND_TO_TRADE"
         /\ action.playerId # state.players[state.turnState.currentPlayerIndex].id
    THEN validateRespondToTrade(state, action)
  ELSE CASE state.turnState.mainSubPhase = "ROLL_DICE" -> validateRollDicePhase(state, action)
         [] state.turnState.mainSubPhase = "DISCARD" -> Invalid("Waiting for players to discard")
         [] state.turnState.mainSubPhase = "MOVE_ROBBER" ->
              IF action.type # "MOVE_ROBBER"
                THEN Invalid("You must move the robber")
                ELSE validateMoveRobber(state, action)
         [] state.turnState.mainSubPhase = "STEAL" ->
              IF action.type # "STEAL"
                THEN Invalid("You must choose a player to steal from")
                ELSE validateSteal(state, action)
         [] state.turnState.mainSubPhase = "TRADE_BUILD_PLAY" ->
              validateTradeBuildPlay(state, action)
         [] OTHER -> Invalid("Unknown sub-phase")

validateMainAction(state, action) ==
  LET turnState == state.turnState
      currentPlayer == state.players[turnState.currentPlayerIndex]
  IN IF action.type = "DISCARD_RESOURCES"
       THEN IF turnState.mainSubPhase # "DISCARD"
              THEN Invalid("Not in discard phase")
              ELSE validateDiscard(state, action)
     ELSE IF action.playerId # currentPlayer.id
       THEN IF action.type = "RESPOND_TO_TRADE"
              THEN validateRespondToTrade(state, action)
              ELSE Invalid("It's not your turn")
     ELSE CASE turnState.mainSubPhase = "ROLL_DICE" -> validateRollDicePhase(state, action)
            [] turnState.mainSubPhase = "DISCARD" -> Invalid("Waiting for players to discard")
            [] turnState.mainSubPhase = "MOVE_ROBBER" ->
                 IF action.type # "MOVE_ROBBER"
                   THEN Invalid("You must move the robber")
                   ELSE validateMoveRobber(state, action)
            [] turnState.mainSubPhase = "STEAL" ->
                 IF action.type # "STEAL"
                   THEN Invalid("You must choose a player to steal from")
                   ELSE validateSteal(state, action)
            [] turnState.mainSubPhase = "TRADE_BUILD_PLAY" ->
                 validateTradeBuildPlay(state, action)
            [] OTHER -> Invalid("Unknown sub-phase")


\* A validation that goes on with the rules of the main phase when the game is over.
validateActionAfterEnd(state, action) ==
  CASE state.turnState.phase = "SETUP" -> validateSetupAction(state, action)
    [] state.turnState.phase \in {"MAIN", "GAME_OVER"} -> validateMainAction(state, action)
    [] OTHER -> Invalid("Unknown game phase")

validateAction(state, action) ==
  IF state.turnState.phase = "GAME_OVER" THEN Invalid("Game is over")
  ELSE CASE state.turnState.phase = "SETUP" -> validateSetupAction(state, action)
         [] state.turnState.phase = "MAIN" -> validateMainAction(state, action)
         [] OTHER -> Invalid("Unknown game phase")

\* ===================================================================
\* engine/resource-producer.ts (src/unnamed/part_007, first half)
\* ===================================================================

\* What the loop over the hexes adds to one player's gains for one resource:
\* each listed vertex of each producing hex is canonicalized once more and the
\* building found under that key yields 1 (settlement) or 2 (city).
rawGain(state, diceTotal, playerId, resource) ==
  LET producing ==
        { h \in hexSet :
            /\ state.board.hexes[h].numberToken = diceTotal
            /\ state.board.hexes[h].terrain # "desert"
            /\ h # state.board.robberHex
            /\ TERRAIN_RESOURCE(state.board.hexes[h].terrain) = resource }
      hits ==
        { hv \in UNION { { <<h, v>> : v \in hexVertices(h) } : h \in producing } :
            /\ canonicalizeVertex(hv[2]) \in DOMAIN state.board.buildings
            /\ state.board.buildings[canonicalizeVertex(hv[2])].playerId = playerId }
  IN SumOver(hits,
       [hv \in hits |->
          IF state.board.buildings[canonicalizeVertex(hv[2])].type = "city" THEN 2 ELSE 1])

produceResources(state, diceTotal) ==
  LET ids == { state.players[i].id : i \in DOMAIN state.players }
      totalNeeded ==
        [r \in ResourceTypes |->
           SumOver(ids, [q \in ids |-> rawGain(state, diceTotal, q, r)])]
  IN [q \in ids |->
        [r \in ResourceTypes |->
           IF totalNeeded[r] > state.bankResources[r]
             THEN 0
             ELSE rawGain(state, diceTotal, q, r)]]

\* ===================================================================
\* engine/robber.ts (src/unnamed/part_007, second half)
\* ===================================================================

\* A discard count that rounds the half up.
getPlayersToDiscardRoundedUp(state) ==
  LET over == { i \in DOMAIN state.players :
                  bundleTotal(state.players[i].resources) > ROBBER_DISCARD_THRESHOLD }
  IN [q \in { state.players[i].id : i \in over } |->
        (bundleTotal(getPlayer(state, q).resources) + 1) \div 2]

getPlayersToDiscard(state) ==
  LET over == { i \in DOMAIN state.players :
                  bundleTotal(state.players[i].resources) > ROBBER_DISCARD_THRESHOLD }
  IN [q \in { state.players[i].id : i \in over } |->
        bundleTotal(getPlayer(state, q).resources) \div 2]

\* A discard whose cards do not go back to the bank.
processDiscardKept(state, playerId, resources) ==
  LET newPending == MapDelete(state.turnState.pendingDiscards, playerId)
      result == addLogEntry(
                  updatePlayer(state, playerId,
                    [resources |-> subtractBundles(getPlayer(state, playerId).resources,
                                                   resources)]),
                  "DISCARD")
  IN IF DOMAIN newPending = {}
       THEN updateTurnState(result,
              [pendingDiscards |-> newPending, mainSubPhase |-> "MOVE_ROBBER"])
       ELSE updateTurnState(result, [pendingDiscards |-> newPending])

processDiscard(state, playerId, resources) ==
  LET player == getPlayer(state, playerId)
      r1 == updatePlayer(state, playerId,
              [resources |-> [r \in ResourceTypes |-> player.resources[r] - resources[r]]])
      r2 == addBankResources(r1, resources)
      r3 == addLogEntry(r2, "DISCARD")
      newPending == MapDelete(state.turnState.pendingDiscards, playerId)
      r4 == updateTurnState(r3, [pendingDiscards |-> newPending])
  IN IF DOMAIN newPending = {}
       THEN updateTurnState(r4, [mainSubPhase |-> "MOVE_ROBBER"])
       ELSE r4

getPlayersAdjacentToHex(state, hex, excludePlayerId) ==
  { state.board.buildings[canonicalizeVertex(v)].playerId :
      v \in { w \in hexVertices(hex) :
                /\ canonicalizeVertex(w) \in DOMAIN state.board.buildings
                /\ state.board.buildings[canonicalizeVertex(w)].playerId # excludePlayerId } }

moveRobber(state, newHex, movedByPlayerId) ==
  LET r1 == addLogEntry(updateBoard(state, [robberHex |-> newHex]), "MOVE_ROBBER")
      adjacentPlayers == getPlayersAdjacentToHex(r1, newHex, movedByPlayerId)
      stealable == { q \in adjacentPlayers : bundleTotal(getPlayer(r1, q).resources) > 0 }
      skip(st) == updateTurnState(st, [mainSubPhase |-> "TRADE_BUILD_PLAY",
                                       mustStealFrom |-> {}])
  IN IF Cardinality(adjacentPlayers) = 0
       THEN skip(r1)
     ELSE IF Cardinality(adjacentPlayers) = 1
       THEN IF stealable = {}
              THEN skip(addLogEntry(r1, "STEAL"))
              ELSE updateTurnState(r1, [mainSubPhase |-> "STEAL",
                                        mustStealFrom |-> adjacentPlayers])
     ELSE IF stealable = {}
       THEN skip(addLogEntry(r1, "STEAL"))
       ELSE updateTurnState(r1, [mainSubPhase |-> "STEAL", mustStealFrom |-> stealable])

\* available[index] : the cards of a hand laid out in the order of RESOURCE_TYPES.
RECURSIVE cardAt(_, _, _)
cardAt(resources, index, i) ==
  IF index < resources[RESOURCE_TYPES[i]] \/ i = Len(RESOURCE_TYPES)
    THEN RESOURCE_TYPES[i]
    ELSE cardAt(resources, index - resources[RESOURCE_TYPES[i]], i + 1)

\* index is the draw rng.nextInt(0, available.length - 1).
stealResource(state, thief, targetId, index) ==
  LET target == getPlayer(state, targetId) IN
  IF bundleTotal(target.resources) = 0
    THEN updateTurnState(addLogEntry(state, "STEAL"),
           [mainSubPhase |-> "TRADE_BUILD_PLAY", mustStealFrom |-> {}])
    ELSE LET stolenResource == cardAt(target.resources, index, 1)
             stolenBundle == [EMPTY_BUNDLE EXCEPT ![stolenResource] = 1]
             r1 == transferResources(state, targetId, thief, stolenBundle)
         IN updateTurnState(addLogEntry(r1, "STEAL"),
              [mainSubPhase |-> "TRADE_BUILD_PLAY", mustStealFrom |-> {}])

\* ===================================================================
\* engine/army-tracker.ts, engine/victory.ts (src/unnamed/part_005)
\* ===================================================================


\* A largest army that every player at the maximum holds.
updateLargestArmyShared(state) ==
  LET idx == DOMAIN state.players
      maxKnights == MaxOf({ state.players[i].knightsPlayed : i \in idx } \cup {0})
  IN [state EXCEPT !.players =
        [i \in idx |-> [state.players[i] EXCEPT
                          !.hasLargestArmy =
                            /\ maxKnights >= LARGEST_ARMY_MINIMUM
                            /\ state.players[i].knightsPlayed = maxKnights]]]

\* A largest army that goes to the only player at the maximum, whoever holds it.
updateLargestArmyNoHolder(state) ==
  LET idx == DOMAIN state.players
      maxKnights == MaxOf({ state.players[i].knightsPlayed : i \in idx } \cup {0})
      withMax == { i \in idx : state.players[i].knightsPlayed = maxKnights }
  IN [state EXCEPT !.players =
        [i \in idx |-> [state.players[i] EXCEPT
                          !.hasLargestArmy =
                            /\ maxKnights >= LARGEST_ARMY_MINIMUM
                            /\ withMax = {i}]]]

updateLargestArmy(state) ==
  LET idx == DOMAIN state.players
      first(S) == CHOOSE i \in S : \A j \in S : i <= j
      holders == { i \in idx : state.players[i].hasLargestArmy }
      maxKnights == MaxOf({ state.players[i].knightsPlayed : i \in idx } \cup {0})
      withMax == { i \in idx : state.players[i].knightsPlayed = maxKnights }
      tied == maxKnights > 0 /\ Cardinality(withMax) > 1
      maxPlayer == IF maxKnights > 0 THEN state.players[first(withMax)].id ELSE NoPlayer
      newHolderId ==
        IF holders # {}
          THEN IF state.players[first(holders)].knightsPlayed >= maxKnights
                 THEN state.players[first(holders)].id
               ELSE IF ~tied THEN maxPlayer
               ELSE NoPlayer
          ELSE IF ~tied /\ maxPlayer # NoPlayer THEN maxPlayer ELSE NoPlayer
  IN IF maxKnights < LARGEST_ARMY_MINIMUM
       THEN [state EXCEPT !.players =
               [i \in idx |-> [state.players[i] EXCEPT !.hasLargestArmy = FALSE]]]
       ELSE [state EXCEPT !.players =
               [i \in idx |-> [state.players[i] EXCEPT
                                 !.hasLargestArmy = (state.players[i].id = newHolderId)]]]

calculateVP(state, playerId) ==
  LET player == getPlayer(state, playerId)
      own(type) == Cardinality({ v \in DOMAIN state.board.buildings :
                                   /\ state.board.buildings[v].playerId = playerId
                                   /\ state.board.buildings[v].type = type })
      victoryPointCards ==
        Cardinality({ i \in 1..Len(player.devCards) :
                        player.devCards[i].type = "victoryPoint" }) * VP_DEV_CARD
      total == own("settlement") * VP_SETTLEMENT + own("city") * VP_CITY
                 + (IF player.hasLongestRoad THEN VP_LONGEST_ROAD ELSE 0)
                 + (IF player.hasLargestArmy THEN VP_LARGEST_ARMY ELSE 0)
                 + victoryPointCards
  IN [total |-> total, publicTotal |-> total - victoryPointCards]


\* A victory check that counts only the points everybody can see.
checkVictoryPublic(state) ==
  IF state.turnState.phase \in {"GAME_OVER", "SETUP"} THEN state
  ELSE LET currentPlayer == state.players[state.turnState.currentPlayerIndex] IN
       IF calculateVP(state, currentPlayer.id).publicTotal >= VP_TO_WIN
         THEN [addLogEntry(state, "GAME_OVER") EXCEPT
                 !.winner = currentPlayer.id,
                 !.turnState.phase = "GAME_OVER"]
         ELSE state

checkVictory(state) ==
  IF state.turnState.phase \in {"GAME_OVER", "SETUP"} THEN state
  ELSE LET currentPlayer == state.players[state.turnState.currentPlayerIndex] IN
       IF calculateVP(state, currentPlayer.id).total >= VP_TO_WIN
         THEN [addLogEntry(state, "GAME_OVER") EXCEPT
                 !.winner = currentPlayer.id,
                 !.turnState.phase = "GAME_OVER"]
         ELSE state

\* ===================================================================
\* engine/dev-cards.ts
\* ===================================================================

\* player.devCards.filter(...) : the hand without the first playable card of a type.
removeFirstPlayable(state, player, type) ==
  LET cards == player.devCards
      playable == { i \in 1..Len(cards) :
                      /\ cards[i].type = type
                      /\ cards[i].turnAcquired < state.turnState.turnNumber }
  IN IF playable = {} THEN cards
     ELSE LET k == CHOOSE i \in playable : \A j \in playable : i <= j
          IN [i \in 1..(Len(cards) - 1) |-> IF i < k THEN cards[i] ELSE cards[i + 1]]

buyDevCard(state, playerId) ==
  LET player == getPlayer(state, playerId)
      newCard == [type |-> state.devCardDeck[1], turnAcquired |-> state.turnState.turnNumber]
      r1 == takePlayerResources(state, playerId, BUILDING_COSTS.devCard)
      r2 == updatePlayer(r1, playerId, [devCards |-> Append(player.devCards, newCard)])
      r3 == [r2 EXCEPT !.devCardDeck = Tail(state.devCardDeck)]
      r4 == updateTurnState(r3, [devCardBoughtThisTurn |-> TRUE])
  IN addLogEntry(r4, "BUY_DEV_CARD")

\* A Knight that stays in the hand when it is played.
playKnightKeepingCard(state, playerId) ==
  LET player == getPlayer(state, playerId)
      r1 == updatePlayer(state, playerId, [knightsPlayed |-> player.knightsPlayed + 1])
      r2 == updateTurnState(r1, [devCardPlayedThisTurn |-> TRUE])
  IN updateLargestArmy(addLogEntry(r2, "PLAY_KNIGHT"))

playKnight(state, playerId) ==
  LET player == getPlayer(state, playerId)
      r1 == updatePlayer(state, playerId,
              [devCards |-> removeFirstPlayable(state, player, "knight"),
               knightsPlayed |-> player.knightsPlayed + 1])
      r2 == updateTurnState(r1, [devCardPlayedThisTurn |-> TRUE])
  IN updateLargestArmy(addLogEntry(r2, "PLAY_KNIGHT"))

\* A Road Building that always grants two roads.
playRoadBuildingTwo(state, playerId) ==
  addLogEntry(
    updateTurnState(
      updatePlayer(state, playerId,
        [devCards |-> removeFirstPlayable(state, getPlayer(state, playerId), "roadBuilding")]),
      [devCardPlayedThisTurn |-> TRUE, roadBuildingRoadsLeft |-> 2]),
    "PLAY_ROAD_BUILDING")

playRoadBuilding(state, playerId) ==
  LET player == getPlayer(state, playerId)
      roadsToPlace == Min2(2, player.roadsRemaining)
      r1 == updatePlayer(state, playerId,
              [devCards |-> removeFirstPlayable(state, player, "roadBuilding")])
      r2 == updateTurnState(r1, [devCardPlayedThisTurn |-> TRUE,
                                 roadBuildingRoadsLeft |-> roadsToPlace])
  IN addLogEntry(r2, "PLAY_ROAD_BUILDING")

playYearOfPlenty(state, playerId, resources) ==
  LET player == getPlayer(state, playerId)
      r1 == updatePlayer(state, playerId,
              [devCards |-> removeFirstPlayable(state, player, "yearOfPlenty")])
      r2 == givePlayerResources(r1, playerId, bundleOfList(resources))
      r3 == updateTurnState(r2, [devCardPlayedThisTurn |-> TRUE])
  IN addLogEntry(r3, "PLAY_YEAR_OF_PLENTY")

\* The loop over the other players: each hands over all its cards of the type.
RECURSIVE collectFrom(_, _, _, _)
collectFrom(state, others, playerId, resource) ==
  IF others = {} THEN state
  ELSE LET i == CHOOSE j \in others : \A k \in others : j <= k
           other == state.players[i]
           amount == other.resources[resource]
           next == IF amount > 0
                     THEN transferResources(state, other.id, playerId,
                            [EMPTY_BUNDLE EXCEPT ![resource] = amount])
                     ELSE state
       IN collectFrom(next, others \ {i}, playerId, resource)

playMonopoly(state, playerId, resource) ==
  LET player == getPlayer(state, playerId)
      r1 == updatePlayer(state, playerId,
              [devCards |-> removeFirstPlayable(state, player, "monopoly")])
      r2 == collectFrom(r1, { i \in DOMAIN r1.players : r1.players[i].id # playerId },
                        playerId, resource)
      r3 == updateTurnState(r2, [devCardPlayedThisTurn |-> TRUE])
  IN addLogEntry(r3, "PLAY_MONOPOLY")

\* ===================================================================
\* engine/game-engine.ts : main phase handlers
\* ===================================================================

\* The loop over the gains: every player that gains something is paid from the
\* bank and gets a PRODUCE entry, in the order of the players.
RECURSIVE giveGains(_, _, _)
giveGains(state, gains, todo) ==
  IF todo = {} THEN state
  ELSE LET i == CHOOSE j \in todo : \A k \in todo : j <= k
           id == state.players[i].id
           next == IF bundleTotal(gains[id]) > 0
                     THEN addLogEntry(givePlayerResources(state, id, gains[id]), "PRODUCE")
                     ELSE state
       IN giveGains(next, gains, todo \ {i})

\* dice is the pair of draws rng.nextInt(1, 6), rng.nextInt(1, 6).
handleRollDice(state, action, dice) ==
  LET total == dice[1] + dice[2]
      r1 == addLogEntry(updateTurnState(state, [diceRoll |-> dice]), "ROLL_DICE")
  IN IF total = 7
       THEN LET discards == getPlayersToDiscard(r1) IN
            IF DOMAIN discards # {}
              THEN updateTurnState(r1, [mainSubPhase |-> "DISCARD",
                                        pendingDiscards |-> discards])
              ELSE updateTurnState(r1, [mainSubPhase |-> "MOVE_ROBBER"])
       ELSE updateTurnState(
              giveGains(r1, produceResources(r1, total), DOMAIN r1.players),
              [mainSubPhase |-> "TRADE_BUILD_PLAY"])

\* index is the draw made inside stealResource.
handleSteal(state, action, index) ==
  stealResource(state, action.playerId, action.targetPlayerId, index)

updatePortAccessForVertex(state, playerId, vertex) ==
  LET player == getPlayer(state, playerId)
      newPorts ==
        player.portsAccess \cup
          { state.board.ports[i].type : i \in { j \in DOMAIN state.board.ports :
              vertex = state.board.ports[j].vertices[1]
                \/ vertex = state.board.ports[j].vertices[2] } }
  IN IF Cardinality(newPorts) # Cardinality(player.portsAccess)
       THEN updatePlayer(state, playerId, [portsAccess |-> newPorts])
       ELSE state

handlePlaceSettlement(state, action) ==
  LET vertex == canonicalizeVertex(action.vertex)
      player == getPlayer(state, action.playerId)
      r1 == takePlayerResources(state, action.playerId, BUILDING_COSTS.settlement)
      r2 == placeBuilding(r1, vertex, [type |-> "settlement", playerId |-> action.playerId])
      r3 == updatePlayer(r2, action.playerId,
              [settlementsRemaining |-> player.settlementsRemaining - 1])
      r4 == updatePortAccessForVertex(r3, action.playerId, vertex)
  IN updateLongestRoad(addLogEntry(r4, "BUILD_SETTLEMENT"))

handlePlaceRoad(state, action) ==
  LET player == getPlayer(state, action.playerId)
      isFree == state.turnState.roadBuildingRoadsLeft > 0
      paid(result) ==
        IF ~isFree
          THEN takePlayerResources(result, action.playerId, BUILDING_COSTS.road)
          ELSE result
      counted(result) ==
        IF isFree
          THEN updateTurnState(result,
                 [roadBuildingRoadsLeft |-> state.turnState.roadBuildingRoadsLeft - 1])
          ELSE result
  IN updateLongestRoad(
       counted(
         addLogEntry(
           updatePlayer(
             placeRoad(paid(state), action.edge, [playerId |-> action.playerId]),
             action.playerId, [roadsRemaining |-> player.roadsRemaining - 1]),
           "BUILD_ROAD")))


\* handlePlaceCity without the settlement piece going back to the supply.
handlePlaceCityKeepingPiece(state, action) ==
  LET vertex == canonicalizeVertex(action.vertex)
      player == getPlayer(state, action.playerId)
      r1 == takePlayerResources(state, action.playerId, BUILDING_COSTS.city)
      r2 == upgradeBuilding(r1, vertex, "city")
      r3 == updatePlayer(r2, action.playerId,
              [citiesRemaining |-> player.citiesRemaining - 1])
  IN addLogEntry(r3, "BUILD_CITY")

handlePlaceCity(state, action) ==
  LET vertex == canonicalizeVertex(action.vertex)
      player == getPlayer(state, action.playerId)
      r1 == takePlayerResources(state, action.playerId, BUILDING_COSTS.city)
      r2 == upgradeBuilding(r1, vertex, "city")
      r3 == updatePlayer(r2, action.playerId,
              [citiesRemaining |-> player.citiesRemaining - 1,
               settlementsRemaining |-> player.settlementsRemaining + 1])
  IN addLogEntry(r3, "BUILD_CITY")

\* Knight played before rolling : back to ROLL_DICE once the robber is done.
afterKnight(state, result) ==
  IF /\ state.turnState.mainSubPhase = "ROLL_DICE"
     /\ result.turnState.mainSubPhase = "TRADE_BUILD_PLAY"
    THEN updateTurnState(result, [mainSubPhase |-> "ROLL_DICE"])
    ELSE result

handlePlayKnight(state, action) ==
  afterKnight(state,
    moveRobber(playKnight(state, action.playerId), action.robberHex, action.playerId))

\* `trade_${turnNumber}_${tradeOffers.length}`
handleProposeTrade(state, action) ==
  createTradeOffer(state, action.playerId, action.offering, action.requesting,
                   <<state.turnState.turnNumber, Len(state.tradeOffers)>>)

\* An end of turn that leaves the offers of the ending player open.
handleEndTurnKeepingOffers(state, action) ==
  LET nextPlayerIndex ==
        (state.turnState.currentPlayerIndex + 1) % Cardinality(DOMAIN state.players)
      r2 == updateTurnState(state,
              [currentPlayerIndex |-> nextPlayerIndex,
               mainSubPhase |-> "ROLL_DICE",
               turnNumber |-> state.turnState.turnNumber + 1,
               diceRoll |-> NoDice,
               devCardPlayedThisTurn |-> FALSE,
               devCardBoughtThisTurn |-> FALSE,
               roadBuildingRoadsLeft |-> 0,
               mustStealFrom |-> {}])
  IN addLogEntry(r2, "END_TURN")

handleEndTurn(state, action) ==
  LET currentPlayer == getCurrentPlayer(state)
      nextPlayerIndex ==
        (state.turnState.currentPlayerIndex + 1) % Cardinality(DOMAIN state.players)
      r1 == [state EXCEPT !.tradeOffers =
               [i \in 1..Len(state.tradeOffers) |->
                  IF /\ state.tradeOffers[i].status = "open"
                     /\ state.tradeOffers[i].fromPlayerId = currentPlayer.id
                    THEN [state.tradeOffers[i] EXCEPT !.status = "cancelled"]
                    ELSE state.tradeOffers[i]]]
      r2 == updateTurnState(r1,
              [currentPlayerIndex |-> nextPlayerIndex,
               mainSubPhase |-> "ROLL_DICE",
               turnNumber |-> state.turnState.turnNumber + 1,
               diceRoll |-> NoDice,
               devCardPlayedThisTurn |-> FALSE,
               devCardBoughtThisTurn |-> FALSE,
               roadBuildingRoadsLeft |-> 0,
               mustStealFrom |-> {}])
  IN addLogEntry(r2, "END_TURN")

\* draws : the values the seeded generator yields during this dispatch.
handleMainAction(state, action, draws) ==
  CASE action.type = "ROLL_DICE" -> handleRollDice(state, action, draws.dice)
    [] action.type = "DISCARD_RESOURCES" ->
         processDiscard(state, action.playerId, action.resources)
    [] action.type = "MOVE_ROBBER" -> moveRobber(state, action.hex, action.playerId)
    [] action.type = "STEAL" -> handleSteal(state, action, draws.index)
    [] action.type = "PLACE_SETTLEMENT" -> handlePlaceSettlement(state, action)
    [] action.type = "PLACE_ROAD" -> handlePlaceRoad(state, action)
    [] action.type = "PLACE_CITY" -> handlePlaceCity(state, action)
    [] action.type = "BUY_DEV_CARD" -> buyDevCard(state, action.playerId)
    [] action.type = "PLAY_KNIGHT" -> handlePlayKnight(state, action)
    [] action.type = "PLAY_ROAD_BUILDING" -> playRoadBuilding(state, action.playerId)
    [] action.type = "PLAY_YEAR_OF_PLENTY" ->
         playYearOfPlenty(state, action.playerId, action.resources)
    [] action.type = "PLAY_MONOPOLY" -> playMonopoly(state, action.playerId, action.resource)
    [] action.type = "PROPOSE_TRADE" -> handleProposeTrade(state, action)
    [] action.type = "RESPOND_TO_TRADE" ->
         respondToTrade(state, action.playerId, action.tradeId, action.accept)
    [] action.type = "CONFIRM_TRADE" -> confirmTrade(state, action.tradeId, action.withPlayerId)
    [] action.type = "CANCEL_TRADE" -> cancelTrade(state, action.tradeId)
    [] action.type = "BANK_TRADE" ->
         executeBankTrade(state, action.playerId, action.giving, action.receiving)
    [] action.type = "END_TURN" -> handleEndTurn(state, action)

\* The outcome of dispatch: either the new state, or the error it throws.
\* dispatch, after the handler has produced newState : the victory check.
dispatchResult(newState) ==
  [threw |-> FALSE, error |-> "", message |-> "", args |-> <<>>,
   state |-> IF newState.turnState.phase = "MAIN"
               THEN checkVictory(newState)
               ELSE newState]

\* dispatch, given what validateAction answered.
dispatchValidated(state, action, draws, validation) ==
  IF ~validation.valid
    THEN [threw |-> TRUE, error |-> "InvalidActionError",
          message |-> validation.reason, args |-> validation.args, state |-> state]
    ELSE CASE state.turnState.phase = "SETUP" ->
                dispatchResult(handleSetupAction(state, action))
           [] state.turnState.phase = "MAIN" ->
                dispatchResult(handleMainAction(state, action, draws))
           [] OTHER ->
                [threw |-> TRUE, error |-> "InvalidActionError",
                 message |-> "Cannot dispatch actions in this phase", args |-> <<>>,
                 state |-> state]

dispatch(state, action, draws) ==
  dispatchValidated(state, action, draws, validateAction(state, action))

\* ===================================================================
\* server/game-room.ts
\* ===================================================================

\* GameRoom.gameState before the game is started (null).
NoGame == [turnState |-> [phase |-> "NONE"]]

NoReply == [type |-> "NONE", reason |-> "", args |-> <<>>]

\* GameRoom.startGame : the seats become the players, in join order
\* (playerIds lists this.players.map((p) => p.id), from index 0); board and
\* devCardDeck stand for what the generator seeded with Date.now() deals.
startGame(gameRoom, playerIds, board, devCardDeck) ==
  IF \/ Cardinality(DOMAIN playerIds) < 3
     \/ Cardinality(DOMAIN playerIds) > 4
     \/ gameRoom.status # "waiting"
    THEN gameRoom
    ELSE [gameState |-> createGameState(playerIds, board, devCardDeck),
          status |-> "in_progress"]

\* A room that records a rejected action in the game's log.
handleResultLogging(gameRoom, result) ==
  IF result.threw
    THEN [room |-> [gameRoom EXCEPT !.gameState = addLogEntry(result.state, "REJECTED")],
          reply |-> [type |-> "ACTION_REJECTED", reason |-> result.message,
                     args |-> result.args]]
    ELSE [room |-> [gameState |-> result.state,
                    status |-> IF result.state.winner # NoPlayer
                                 THEN "finished" ELSE gameRoom.status],
          reply |-> [type |-> "STATE_UPDATE", reason |-> "", args |-> <<>>]]

\* GameRoom.handleAction : the room's fields after the call, and the message
\* it sends (STATE_UPDATE to every seat, or ACTION_REJECTED to the sender).
handleResult(gameRoom, result) ==
  IF result.threw
    THEN [room |-> gameRoom,
          reply |-> [type |-> "ACTION_REJECTED", reason |-> result.message,
                     args |-> result.args]]
    ELSE [room |-> [gameState |-> result.state,
                    status |-> IF result.state.winner # NoPlayer
                                 THEN "finished" ELSE gameRoom.status],
          reply |-> [type |-> "STATE_UPDATE", reason |-> "", args |-> <<>>]]

handleAction(gameRoom, action, draws) ==
  IF gameRoom.gameState = NoGame \/ gameRoom.status # "in_progress"
    THEN [room |-> gameRoom, reply |-> NoReply]
    ELSE handleResult(gameRoom, dispatch(gameRoom.gameState, action, draws))

\* ===================================================================
\* server/state-filter.ts
\* ===================================================================

\* PlayerPublicInfo of a player, what every seat is sent about it.  The name
\* and the colour of a seat are fixed by the lobby and are no part of the
\* modelled state.
publicInfo(state, player, publicVP) ==
  [id |-> player.id,
   resourceCount |-> bundleTotal(player.resources),
   devCardCount |-> Len(player.devCards),
   knightsPlayed |-> player.knightsPlayed,
   hasLongestRoad |-> player.hasLongestRoad,
   hasLargestArmy |-> player.hasLargestArmy,
   roadLength |-> player.roadLength,
   publicVP |-> publicVP,
   connected |-> player.connected]

\* ClientPlayerView : the public information (spread into the view by the
\* source, kept together here), and for the viewer also the hand, the dev cards
\* and the ports.
playerView(info, player, isSelf) ==
  IF isSelf
    THEN [viewType |-> "self", info |-> info, devCards |-> player.devCards,
          resources |-> player.resources, portsAccess |-> player.portsAccess]
    ELSE [viewType |-> "other", info |-> info]

\* A projection that shows every seat's full score, victory-point cards included.
filterStateForPlayerFullScore(state, playerId) ==
  [board |-> state.board,
   players |-> [i \in DOMAIN state.players |->
                  playerView(publicInfo(state, state.players[i],
                                        calculateVP(state, state.players[i].id).total),
                             state.players[i], state.players[i].id = playerId)],
   turnState |-> state.turnState,
   devCardDeckCount |-> Len(state.devCardDeck),
   tradeOffers |-> state.tradeOffers,
   winner |-> state.winner,
   log |-> state.log,
   yourPlayerId |-> playerId,
   bankResources |-> state.bankResources]

\* filterStateForPlayer : the ClientGameState sent to a seat.  Object.fromEntries
\* turns each Map (hexes, buildings, roads, pendingDiscards, responses) into the
\* object with the same keys and values, here the same function.
filterStateForPlayer(state, playerId) ==
  [board |-> state.board,
   players |-> [i \in DOMAIN state.players |->
                  playerView(publicInfo(state, state.players[i],
                                        calculateVP(state, state.players[i].id).publicTotal),
                             state.players[i], state.players[i].id = playerId)],
   turnState |-> state.turnState,
   devCardDeckCount |-> Len(state.devCardDeck),
   tradeOffers |-> state.tradeOffers,
   winner |-> state.winner,
   log |-> state.log,
   yourPlayerId |-> playerId,
   bankResources |-> state.bankResources]

\* ===================================================================
\* server/connection.ts, server/game-room.ts : the seats of a room
\* ===================================================================

\* The server as a value: rooms (Lobby.rooms, room id -> GameRoom with its
\* fields roomId, hostId, status, players, gameState), connections (every
\* Connection with its fields playerId, roomId, token and whether its socket
\* is open), sent (what the handler of the last event wrote to which
\* connection, in order) and uuids (how many identifiers uuidv4 has issued).
\* A RoomPlayer is [id, token, connection]; names and colours are left out.

\* Absent values: a null connection, a null roomId, a null token.
NoConnection == 0
NoRoom == ""
NoToken == << >>

\* uuidv4() : the n-th identifier issued as a player id, and as a token.
PlayerUuid(n) == n
TokenUuid(n) == <<"token", n>>

NewConnection == [open |-> TRUE, playerId |-> NoPlayer, roomId |-> NoRoom, token |-> NoToken]

\* new GameRoom(roomId, hostId)
NewGameRoom(roomId, hostId) ==
  [roomId |-> roomId, hostId |-> hostId, status |-> "waiting", players |-> << >>,
   gameState |-> NoGame]

maxPlayers == 4

\* Connection.send : written only while the socket is open; a null connection
\* (player.connection?.send) receives nothing.
send(srv, to, msg) ==
  IF to # NoConnection /\ srv.connections[to].open
    THEN [srv EXCEPT !.sent = Append(@, [to |-> to, msg |-> msg])]
    ELSE srv

\* The same for a list of messages, in order.
sendEach(srv, msgs) ==
  [srv EXCEPT !.sent =
     @ \o SelectSeq(msgs, LAMBDA m : m.to # NoConnection /\ srv.connections[m.to].open)]

\* GameRoom.getRoomInfo
getRoomInfo(gameRoom) ==
  [roomId |-> gameRoom.roomId,
   hostId |-> gameRoom.hostId,
   players |-> [i \in 1..Len(gameRoom.players) |-> gameRoom.players[i].id],
   maxPlayers |-> maxPlayers,
   status |-> gameRoom.status]

\* GameRoom.broadcastRoomUpdate
broadcastRoomUpdate(srv, roomId) ==
  sendEach(srv, [i \in 1..Len(srv.rooms[roomId].players) |->
                   [to |-> srv.rooms[roomId].players[i].connection,
                    msg |-> [type |-> "ROOM_UPDATE",
                             roomInfo |-> getRoomInfo(srv.rooms[roomId])]]])

\* GameRoom.broadcastState : STATE_UPDATE, or GAME_STARTED in startGame, with
\* the projection of the state for each seat whose connection is open.
broadcastState(srv, roomId, type) ==
  IF srv.rooms[roomId].gameState = NoGame THEN srv
  ELSE sendEach(srv, [i \in 1..Len(srv.rooms[roomId].players) |->
                        [to |-> srv.rooms[roomId].players[i].connection,
                         msg |-> [type |-> type,
                                  state |-> filterStateForPlayer(
                                              srv.rooms[roomId].gameState,
                                              srv.rooms[roomId].players[i].id)]]])

\* What a seat's connection object is told by the room that binds it.
bind(srv, c, playerId, roomId, token) ==
  [srv EXCEPT !.connections[c] =
     [@ EXCEPT !.playerId = playerId, !.roomId = roomId, !.token = token]]

\* A variant of addPlayer that seats a player whatever the status of the room.
addPlayerAnyStatus(srv, roomId, c) ==
  IF Len(srv.rooms[roomId].players) >= maxPlayers THEN [server |-> srv, result |-> NoPlayer]
  ELSE [server |->
          broadcastRoomUpdate(
            bind([srv EXCEPT
                    !.rooms[roomId].players =
                       Append(@, [id |-> PlayerUuid(srv.uuids),
                                  token |-> TokenUuid(srv.uuids),
                                  connection |-> c]),
                    !.uuids = @ + 1],
                 c, PlayerUuid(srv.uuids), roomId, TokenUuid(srv.uuids)),
            roomId),
        result |-> PlayerUuid(srv.uuids)]

\* GameRoom.addPlayer : result is the player id issued, NoPlayer for null.
addPlayer(srv, roomId, c) ==
  IF Len(srv.rooms[roomId].players) >= maxPlayers THEN [server |-> srv, result |-> NoPlayer]
  ELSE IF srv.rooms[roomId].status # "waiting" THEN [server |-> srv, result |-> NoPlayer]
  ELSE [server |->
          broadcastRoomUpdate(
            bind([srv EXCEPT
                    !.rooms[roomId].players =
                       Append(@, [id |-> PlayerUuid(srv.uuids),
                                  token |-> TokenUuid(srv.uuids),
                                  connection |-> c]),
                    !.uuids = @ + 1],
                 c, PlayerUuid(srv.uuids), roomId, TokenUuid(srv.uuids)),
            roomId),
        result |-> PlayerUuid(srv.uuids)]

\* GameRoom.removePlayer
removePlayer(srv, roomId, playerId) ==
  broadcastRoomUpdate(
    [srv EXCEPT !.rooms[roomId].players = SelectSeq(@, LAMBDA p : p.id # playerId)],
    roomId)

\* GameRoom.getPlayerByToken : the index of the first seat with the token, 0
\* for undefined.
getPlayerByToken(gameRoom, token) ==
  IF \E i \in 1..Len(gameRoom.players) : gameRoom.players[i].token = token
    THEN CHOOSE i \in 1..Len(gameRoom.players) :
           /\ gameRoom.players[i].token = token
           /\ \A j \in 1..(i - 1) : gameRoom.players[j].token # token
    ELSE 0

\* this.gameState.players.map((p) => p.id === playerId ? {...p, connected} : p)
setConnected(state, playerId, connected) ==
  [state EXCEPT !.players =
     [i \in DOMAIN @ |-> IF @[i].id = playerId
                           THEN [@[i] EXCEPT !.connected = connected] ELSE @[i]]]

\* The notice a room sends to the open connections of the other seats.
notifyOthers(srv, roomId, playerId, type) ==
  sendEach(srv,
    SelectSeq([i \in 1..Len(srv.rooms[roomId].players) |->
                 [to |-> IF srv.rooms[roomId].players[i].id # playerId
                           THEN srv.rooms[roomId].players[i].connection
                           ELSE NoConnection,
                  msg |-> [type |-> type, playerId |-> playerId]]],
              LAMBDA m : m.to # NoConnection))

\* GameRoom.reconnectPlayer, for the seat found at index seat (> 0).
reconnectSeat(srv, roomId, seat, token, c) ==
  IF srv.rooms[roomId].gameState = NoGame
    THEN bind([srv EXCEPT !.rooms[roomId].players[seat].connection = c],
              c, srv.rooms[roomId].players[seat].id, roomId, token)
    ELSE notifyOthers(
           send(bind([srv EXCEPT
                        !.rooms[roomId].players[seat].connection = c,
                        !.rooms[roomId].gameState =
                           setConnected(@, srv.rooms[roomId].players[seat].id, TRUE)],
                     c, srv.rooms[roomId].players[seat].id, roomId, token),
                c,
                [type |-> "RECONNECTED",
                 state |-> filterStateForPlayer(
                             setConnected(srv.rooms[roomId].gameState,
                                          srv.rooms[roomId].players[seat].id, TRUE),
                             srv.rooms[roomId].players[seat].id)]),
           roomId, srv.rooms[roomId].players[seat].id, "PLAYER_RECONNECTED")

\* GameRoom.reconnectPlayer : result tells whether a seat has the token.
reconnectPlayer(srv, roomId, token, c) ==
  IF getPlayerByToken(srv.rooms[roomId], token) = 0
    THEN [server |-> srv, result |-> FALSE]
    ELSE [server |-> reconnectSeat(srv, roomId,
                                   getPlayerByToken(srv.rooms[roomId], token), token, c),
          result |-> TRUE]

\* A variant of handleDisconnect that also drops what the leaving player owes.
handleDisconnectDroppingDiscards(srv, roomId, playerId) ==
  IF ~\E i \in 1..Len(srv.rooms[roomId].players) : srv.rooms[roomId].players[i].id = playerId
    THEN srv
  ELSE IF srv.rooms[roomId].gameState = NoGame
    THEN [srv EXCEPT !.rooms[roomId].players =
            [i \in 1..Len(@) |-> IF @[i].id = playerId
                                   THEN [@[i] EXCEPT !.connection = NoConnection] ELSE @[i]]]
  ELSE notifyOthers(
         [srv EXCEPT
            !.rooms[roomId].players =
               [i \in 1..Len(@) |-> IF @[i].id = playerId
                                      THEN [@[i] EXCEPT !.connection = NoConnection]
                                      ELSE @[i]],
            !.rooms[roomId].gameState =
               [setConnected(@, playerId, FALSE) EXCEPT
                  !.turnState.pendingDiscards = MapDelete(@, playerId)]],
         roomId, playerId, "PLAYER_DISCONNECTED")

\* GameRoom.handleDisconnect
handleDisconnect(srv, roomId, playerId) ==
  IF ~\E i \in 1..Len(srv.rooms[roomId].players) : srv.rooms[roomId].players[i].id = playerId
    THEN srv
  ELSE IF srv.rooms[roomId].gameState = NoGame
    THEN [srv EXCEPT !.rooms[roomId].players =
            [i \in 1..Len(@) |-> IF @[i].id = playerId /\ \A j \in 1..(i - 1) : @[j].id # playerId
                                   THEN [@[i] EXCEPT !.connection = NoConnection] ELSE @[i]]]
  ELSE notifyOthers(
         [srv EXCEPT
            !.rooms[roomId].players =
               [i \in 1..Len(@) |-> IF @[i].id = playerId /\ \A j \in 1..(i - 1) : @[j].id # playerId
                                      THEN [@[i] EXCEPT !.connection = NoConnection]
                                      ELSE @[i]],
            !.rooms[roomId].gameState = setConnected(@, playerId, FALSE)],
         roomId, playerId, "PLAYER_DISCONNECTED")

\* The fields of a room that startGame and handleAction work on.
gameOf(gameRoom) == [gameState |-> gameRoom.gameState, status |-> gameRoom.status]

\* GameRoom.startGame in a room of the lobby: result tells whether the game
\* was created; every open seat is then sent GAME_STARTED with its projection.
roomStartGame(srv, roomId, started) ==
  IF started = gameOf(srv.rooms[roomId])
    THEN [server |-> srv, result |-> FALSE]
    ELSE [server |-> broadcastState(
                       [srv EXCEPT !.rooms[roomId].gameState = started.gameState,
                                   !.rooms[roomId].status = started.status],
                       roomId, "GAME_STARTED"),
          result |-> TRUE]

\* The connection of the seat with the id (this.players.find), none for undefined.
connectionOf(gameRoom, playerId) ==
  IF \E i \in 1..Len(gameRoom.players) : gameRoom.players[i].id = playerId
    THEN gameRoom.players[CHOOSE i \in 1..Len(gameRoom.players) :
                            /\ gameRoom.players[i].id = playerId
                            /\ \A j \in 1..(i - 1) : gameRoom.players[j].id # playerId].connection
    ELSE NoConnection

\* GameRoom.handleAction in a room of the lobby, handled being what the room
\* did with { ...action, playerId }: the new state goes to every open seat,
\* a rejection to the connection of the sender's seat, and nothing is sent
\* when the room has no game or its status is not in_progress.
roomHandleAction(srv, roomId, playerId, action, handled) ==
  IF handled.reply.type = "STATE_UPDATE"
    THEN broadcastState([srv EXCEPT !.rooms[roomId].gameState = handled.room.gameState,
                                    !.rooms[roomId].status = handled.room.status],
                        roomId, "STATE_UPDATE")
  ELSE IF handled.reply.type = "ACTION_REJECTED"
    THEN send(srv, connectionOf(srv.rooms[roomId], playerId),
              [type |-> "ACTION_REJECTED", action |-> action, reason |-> handled.reply.reason])
  ELSE srv

\* GameRoom.handleChat
handleChat(srv, roomId, playerId, message) ==
  IF ~\E i \in 1..Len(srv.rooms[roomId].players) : srv.rooms[roomId].players[i].id = playerId
    THEN srv
    ELSE sendEach(srv, [i \in 1..Len(srv.rooms[roomId].players) |->
                          [to |-> srv.rooms[roomId].players[i].connection,
                           msg |-> [type |-> "CHAT_MESSAGE", playerId |-> playerId,
                                    message |-> message]]])

\* ===================================================================
\* server/lobby.ts (in src/packages/server/src/state-filter.ts)
\* ===================================================================

hasRoom(srv, roomId) == roomId \in DOMAIN srv.rooms

\* Lobby.createRoom, roomId being what generateRoomId returns (an id no room
\* has).  The room is created with hostId "", the first seat is added (and told
\* the room info as it then is), and only then the host id is set.
createRoom(srv, roomId, c) ==
  LET added == addPlayer([srv EXCEPT !.rooms = MapSet(@, roomId, NewGameRoom(roomId, NoPlayer))],
                         roomId, c)
  IN IF added.result = NoPlayer
       THEN [server |-> srv, result |-> NoPlayer]
       ELSE [server |-> [added.server EXCEPT !.rooms[roomId].hostId = added.result],
             result |-> added.result]

\* Lobby.joinRoom
joinRoom(srv, roomId, c) ==
  IF ~hasRoom(srv, roomId) THEN [server |-> srv, result |-> NoPlayer]
  ELSE addPlayer(srv, roomId, c)

\* Lobby.leaveRoom
leaveRoom(srv, c) ==
  IF srv.connections[c].roomId = NoRoom \/ srv.connections[c].playerId = NoPlayer THEN srv
  ELSE IF ~hasRoom(srv, srv.connections[c].roomId) THEN srv
  ELSE LET removed == removePlayer(srv, srv.connections[c].roomId, srv.connections[c].playerId)
           roomId == srv.connections[c].roomId
       IN [removed EXCEPT
             !.rooms = IF Len(removed.rooms[roomId].players) = 0 THEN MapDelete(@, roomId) ELSE @,
             !.connections[c].roomId = NoRoom,
             !.connections[c].playerId = NoPlayer]

\* Lobby.listRooms : the info of the rooms that wait for players.
listRooms(srv) ==
  { getRoomInfo(srv.rooms[roomId]) :
      roomId \in { id \in DOMAIN srv.rooms : srv.rooms[id].status = "waiting" } }

\* ===================================================================
\* server/message-handler.ts (src/unnamed/part_004), server/server.ts
\* ===================================================================

Error(message) == [type |-> "ERROR", message |-> message]

\* case "CREATE_ROOM"
handleCreateRoom(srv, c, roomId, created) ==
  IF created.result # NoPlayer
    THEN send(created.server, c,
              [type |-> "ROOM_CREATED", roomId |-> roomId, playerId |-> created.result,
               token |-> created.server.connections[c].token])
    ELSE send(srv, c, Error("Failed to create room"))

\* case "JOIN_ROOM"
handleJoinRoom(srv, c, roomId, joined) ==
  IF joined.result # NoPlayer
    THEN send(joined.server, c,
              [type |-> "ROOM_JOINED", playerId |-> joined.result,
               token |-> joined.server.connections[c].token,
               roomInfo |-> getRoomInfo(joined.server.rooms[roomId])])
    ELSE send(srv, c, Error("Failed to join room (full or not found)"))

\* case "LEAVE_ROOM"
handleLeaveRoom(srv, c) == send(leaveRoom(srv, c), c, [type |-> "ROOM_LEFT"])

\* case "LIST_ROOMS"
handleListRooms(srv, c) == send(srv, c, [type |-> "ROOM_LIST", rooms |-> listRooms(srv)])

\* A variant of the START_GAME case in which any seat of the room may start.
handleStartGameByAnyone(srv, c, board, devCardDeck) ==
  IF srv.connections[c].roomId = NoRoom \/ srv.connections[c].playerId = NoPlayer
    THEN send(srv, c, Error("Not in a room"))
  ELSE IF ~hasRoom(srv, srv.connections[c].roomId)
    THEN send(srv, c, Error("Room not found"))
  ELSE LET roomId == srv.connections[c].roomId
           result == roomStartGame(srv, roomId,
                       startGame(gameOf(srv.rooms[roomId]),
                                 [i \in 0..(Len(srv.rooms[roomId].players) - 1) |->
                                    srv.rooms[roomId].players[i + 1].id],
                                 board, devCardDeck))
       IN IF result.result THEN result.server
          ELSE send(srv, c, Error("Cannot start game (need 3-4 players)"))

\* case "START_GAME" : board and devCardDeck are what the generator would deal.
handleStartGame(srv, c, board, devCardDeck) ==
  IF srv.connections[c].roomId = NoRoom \/ srv.connections[c].playerId = NoPlayer
    THEN send(srv, c, Error("Not in a room"))
  ELSE IF ~hasRoom(srv, srv.connections[c].roomId)
    THEN send(srv, c, Error("Room not found"))
  ELSE IF srv.rooms[srv.connections[c].roomId].hostId # srv.connections[c].playerId
    THEN send(srv, c, Error("Only the host can start the game"))
  ELSE LET roomId == srv.connections[c].roomId
           result == roomStartGame(srv, roomId,
                       startGame(gameOf(srv.rooms[roomId]),
                                 [i \in 0..(Len(srv.rooms[roomId].players) - 1) |->
                                    srv.rooms[roomId].players[i + 1].id],
                                 board, devCardDeck))
       IN IF result.result THEN result.server
          ELSE send(srv, c, Error("Cannot start game (need 3-4 players)"))

\* The rooms that listRooms names and in which a seat has the token.
roomsWithToken(srv, token) ==
  { info.roomId : info \in { i \in listRooms(srv) :
                               getPlayerByToken(srv.rooms[i.roomId], token) # 0 } }

\* case "RECONNECT" : the first room of lobby.listRooms() with a seat for the
\* token takes the connection (tokens are distinct, at most one room has it).
handleReconnect(srv, c, token) ==
  IF roomsWithToken(srv, token) # {}
    THEN reconnectPlayer(srv, CHOOSE roomId \in roomsWithToken(srv, token) : TRUE,
                         token, c).server
    ELSE send(srv, c, Error("Reconnection failed"))

\* case "GAME_ACTION" : the action is dispatched for the seat the connection
\* is bound to, whatever player the payload names.
handleGameAction(srv, c, action, draws) ==
  IF srv.connections[c].roomId = NoRoom \/ srv.connections[c].playerId = NoPlayer
    THEN send(srv, c, Error("Not in a game"))
  ELSE IF ~hasRoom(srv, srv.connections[c].roomId)
    THEN send(srv, c, Error("Room not found"))
  ELSE roomHandleAction(srv, srv.connections[c].roomId, srv.connections[c].playerId, action,
         handleAction(gameOf(srv.rooms[srv.connections[c].roomId]),
                      [action EXCEPT !.playerId = srv.connections[c].playerId],
                      draws))

\* case "CHAT"
handleChatMessage(srv, c, message) ==
  IF srv.connections[c].roomId = NoRoom \/ srv.connections[c].playerId = NoPlayer THEN srv
  ELSE IF ~hasRoom(srv, srv.connections[c].roomId) THEN srv
  ELSE handleChat(srv, srv.connections[c].roomId, srv.connections[c].playerId, message)

\* ws.on("close") : the socket is closed, and the room of the seat the
\* connection is bound to, if it still exists, is told.
handleClose(srv, c) ==
  LET closed == [srv EXCEPT !.connections[c].open = FALSE] IN
  IF srv.connections[c].roomId = NoRoom \/ srv.connections[c].playerId = NoPlayer THEN closed
  ELSE IF ~hasRoom(srv, srv.connections[c].roomId) THEN closed
  ELSE handleDisconnect(closed, srv.connections[c].roomId, srv.connections[c].playerId)

\* ===================================================================
\* The runs that are explored.  A scenario fixes what the random generator
\* deals at the start (the board, the shuffled deck), the dice it can yield,
\* and the repertoire of messages each seat's client sends.
\* ===================================================================

Bundle(wood, brick, sheep, wheat, ore) ==
  [wood |-> wood, brick |-> brick, sheep |-> sheep, wheat |-> wheat, ore |-> ore]

\* The last turn in which the clients of a scenario still send END_TURN, and the
\* number of trade offers after which they stop sending PROPOSE_TRADE.
MaxTurnSetup == 2
MaxTurnBase == 4
MaxTurnHarvest == 6
MaxTurnRoads == 7
MaxTurnVictory == 10
MaxOffers == 1

\* The server runs: connections, identifiers issued, turns of the harvest game.
NumConnections == 4
MaxUuids == 4
MaxRooms == 1
MaxLeaves == 1
MaxCloses == 1
MaxTurnServer == 4

PortShuffle ==
  <<"generic", "wood", "generic", "brick", "generic", "sheep", "generic", "wheat", "ore">>

DeckShuffle ==
  << "knight", "knight", "knight", "knight", "knight",
     "knight", "knight", "knight", "knight", "knight",
     "knight", "knight", "knight", "knight", "victoryPoint",
     "victoryPoint", "victoryPoint", "victoryPoint", "victoryPoint", "roadBuilding",
     "roadBuilding", "yearOfPlenty", "yearOfPlenty", "monopoly", "monopoly" >>

\* The deck with a Year of Plenty and a Monopoly on top.
DeckHarvest ==
  << "yearOfPlenty", "monopoly", "knight", "knight", "knight",
     "knight", "knight", "knight", "knight", "knight",
     "knight", "knight", "knight", "knight", "knight",
     "knight", "victoryPoint", "victoryPoint", "victoryPoint", "victoryPoint",
     "victoryPoint", "roadBuilding", "roadBuilding", "yearOfPlenty", "monopoly" >>

\* The deck with a Road Building on top.
DeckRoads ==
  << "roadBuilding", "knight", "knight", "knight", "knight",
     "knight", "knight", "knight", "knight", "knight",
     "knight", "knight", "knight", "knight", "knight",
     "victoryPoint", "victoryPoint", "victoryPoint", "victoryPoint", "victoryPoint",
     "roadBuilding", "yearOfPlenty", "yearOfPlenty", "monopoly", "monopoly" >>

\* Four seats; setup with vertex references that name neighbouring corners.
SetupFour ==
  [playerCount |-> 4,
   maxTurn |-> MaxTurnSetup,
   terrains |-> <<"desert", "mountains", "hills", "hills", "hills", "pasture", "fields", "pasture", "forest",
        "forest", "fields", "forest", "pasture", "mountains", "fields", "forest", "pasture", "fields", "mountains">>,
   tokens |-> <<10, 3, 11, 12, 5, 8, 6, 4, 9, 5, 6, 9, 3, 8, 10, 2, 11, 4>>,
   portTypes |-> PortShuffle,
   deck |-> DeckShuffle,
   dice |-> << { <<1, 2>> } >>,
   buyers |-> {0, 1, 2, 3},
   roadsBeforeEnd |-> << 0 >>,
   vpBeforeEnd |-> << 0 >>,
   from |-> [END_TURN |-> 1],
   settle |-> << << { <<0, 0, 0, "N">>, <<-2, 1, 1, "S">> } >>,
                 << { <<1, -1, 0, "S">>, <<1, 0, -1, "N">>, <<2, -2, 0, "N">> } >>,
                 << { <<-1, -1, 2, "N">>, <<-2, 2, 0, "S">> } >>,
                 << { <<2, -1, -1, "N">>, <<-1, 2, -1, "S">> } >> >>,
   road |-> << << { <<0, 0, 0, "NE">>, <<-2, 1, 1, "SE">> } >>,
               << { <<0, 0, 0, "E">>, <<0, 0, 0, "SE">>, <<2, -2, 0, "E">> } >>,
               << { <<-2, -1, 3, "SE">>, <<-2, 2, 0, "SE">> } >>,
               << { <<2, -1, -1, "E">>, <<-1, 2, -1, "SE">> } >> >>,
   city |-> << {}, {}, {}, {} >>,
   robber |-> << { <<0, 1, -1>> }, {}, {}, {} >>,
   discard |-> << {}, {}, {}, {} >>,
   plenty |-> << {}, {}, {}, {} >>,
   monopoly |-> << {}, {}, {}, {} >>,
   propose |-> << {}, {}, {}, {} >>,
   bank |-> << {}, {}, {}, {} >>]

\* Three seats; sevens only: robber, steal, knight and a player trade.
Base ==
  [playerCount |-> 3,
   maxTurn |-> MaxTurnBase,
   terrains |-> <<"desert", "mountains", "hills", "hills", "hills", "pasture", "fields", "pasture", "forest",
        "forest", "fields", "forest", "pasture", "mountains", "fields", "forest", "pasture", "fields", "mountains">>,
   tokens |-> <<10, 3, 11, 12, 5, 8, 6, 4, 9, 5, 6, 9, 3, 8, 10, 2, 11, 4>>,
   portTypes |-> PortShuffle,
   deck |-> DeckShuffle,
   dice |-> << { <<3, 4>> } >>,
   buyers |-> {0, 1, 2},
   roadsBeforeEnd |-> << 0 >>,
   vpBeforeEnd |-> << 0 >>,
   from |-> [END_TURN |-> 1],
   settle |-> << << { <<-1, -1, 2, "N">>, <<1, -1, 0, "N">> } >>,
                 << { <<2, -2, 0, "N">>, <<-2, 2, 0, "S">> } >>,
                 << { <<-1, 2, -1, "S">>, <<-2, 0, 2, "S">> } >> >>,
   road |-> << << { <<-2, -1, 3, "SE">>, <<1, -1, 0, "E">> } >>,
               << { <<2, -2, 0, "E">>, <<-2, 2, 0, "SE">> } >>,
               << { <<-1, 2, -1, "SE">>, <<-3, 1, 2, "E">> } >> >>,
   city |-> << { <<1, -1, 0, "N">> }, {}, {} >>,
   robber |-> << { <<-1, 2, -1>>, <<-2, 2, 0>>, <<0, 1, -1>> },
                 { <<1, 0, -1>> },
                 { <<0, 1, -1>> } >>,
   discard |-> << {}, { Bundle(0, 0, 1, 0, 0) }, {} >>,
   plenty |-> << { <<"wood", "brick">> }, {}, {} >>,
   monopoly |-> << { "sheep" }, {}, {} >>,
   propose |-> << {}, { <<Bundle(0, 0, 0, 0, 1), Bundle(1, 0, 0, 0, 0)>> }, {} >>,
   bank |-> << {}, { <<Bundle(0, 0, 0, 0, 4), Bundle(1, 0, 0, 0, 0)>> }, {} >>]

\* Three seats; nines, then one seven with full hands, then nines again:
\* production, discards, a city, bought roads, bank trades, Year of Plenty
\* and Monopoly.
Harvest ==
  [playerCount |-> 3,
   maxTurn |-> MaxTurnHarvest,
   terrains |-> <<"desert", "fields", "forest", "forest", "pasture", "fields", "pasture", "mountains", "forest",
        "pasture", "fields", "hills", "forest", "hills", "mountains", "hills", "mountains", "pasture", "fields">>,
   tokens |-> <<5, 6, 10, 4, 8, 12, 9, 4, 11, 10, 5, 8, 2, 11, 3, 3, 6, 9>>,
   portTypes |-> PortShuffle,
   deck |-> DeckHarvest,
   dice |-> << { <<4, 5>> }, { <<4, 5>> }, { <<4, 5>> }, { <<3, 4>> }, { <<4, 5>> } >>,
   buyers |-> {0, 2},
   roadsBeforeEnd |-> << 0 >>,
   vpBeforeEnd |-> << 0 >>,
   from |-> [END_TURN |-> 1],
   settle |-> << << { <<1, -1, 0, "N">> }, { <<-1, -1, 2, "N">> } >>,
                 << { <<2, -2, 0, "N">> }, { <<-2, 2, 0, "S">> } >>,
                 << { <<-1, 2, -1, "S">> }, { <<-1, 0, 1, "S">> } >> >>,
   road |-> << << { <<1, -1, 0, "E">> }, { <<-2, -1, 3, "SE">> }, { <<1, -1, 0, "NE">> } >>,
               << { <<2, -2, 0, "E">> }, { <<-2, 2, 0, "SE">> }, { <<2, -2, 0, "NE">> } >>,
               << { <<-1, 2, -1, "SE">> }, { <<-2, 1, 1, "E">> } >> >>,
   city |-> << { <<1, -1, 0, "N">> }, {}, {} >>,
   robber |-> << { <<0, 1, -1>> }, {}, {} >>,
   discard |-> << { Bundle(0, 0, 0, 2, 2), Bundle(0, 0, 0, 0, 1) },
                  { Bundle(1, 0, 0, 3, 0), Bundle(0, 0, 0, 0, 4), Bundle(-1, 0, 0, 3, 2) },
                  {} >>,
   plenty |-> << { <<"wood", "brick">> }, {}, { <<"wood", "brick">> } >>,
   monopoly |-> << { "ore" }, {}, { "ore" } >>,
   propose |-> << {}, {}, {} >>,
   bank |-> << {}, { <<Bundle(0, 0, 0, 0, 3), Bundle(1, 0, 0, 0, 0)>>,
                     <<Bundle(0, 0, 0, 0, 4), Bundle(1, 0, 0, 0, 0)>>,
                     <<Bundle(0, -1, 0, 0, 3), Bundle(1, 0, 0, 0, 0)>>,
                     <<Bundle(0, -1, 0, 0, 4), Bundle(1, 0, 0, 0, 0)>> }, {} >>]

\* Three seats; fives only: seat 0 gathers wood and brick and lays its roads
\* one after the other, with a Road Building card in hand.  Its client ends a
\* turn only when the board holds the number of roads listed for that turn.
Roads ==
  [playerCount |-> 3,
   maxTurn |-> MaxTurnRoads,
   terrains |-> <<"forest", "pasture", "forest", "forest", "forest", "fields", "mountains", "pasture", "hills",
        "pasture", "pasture", "desert", "fields", "fields", "fields", "hills", "hills", "mountains", "mountains">>,
   tokens |-> <<5, 10, 4, 9, 11, 8, 4, 2, 5, 6, 3, 12, 6, 3, 9, 11, 8, 10>>,
   portTypes |-> PortShuffle,
   deck |-> DeckRoads,
   dice |-> << { <<2, 3>> } >>,
   buyers |-> {0},
   roadsBeforeEnd |-> << 8, 8, 8, 14, 14, 14, 18 >>,
   vpBeforeEnd |-> << 0 >>,
   from |-> [END_TURN |-> 1],
   settle |-> << << { <<1, -1, 0, "S">> }, { <<0, 0, 0, "N">> } >>,
                 << { <<2, -2, 0, "N">> }, { <<-2, 2, 0, "S">> } >>,
                 << { <<-1, -1, 2, "N">> }, { <<-2, 0, 2, "S">> } >> >>,
   road |-> << << { <<0, 0, 0, "E">> }, { <<-1, 0, 1, "E">> },
                  { <<0, 0, 0, "SE">> }, { <<-1, 1, 0, "E">> }, { <<-1, 0, 1, "SE">> },
                  { <<0, 1, -1, "E">> }, { <<0, 1, -1, "SE">> }, { <<-1, 2, -1, "E">> },
                  { <<0, 2, -2, "E">> }, { <<0, 2, -2, "SE">> }, { <<1, 1, -2, "SE">> },
                  { <<1, -1, 0, "SE">> }, { <<1, 0, -1, "SE">> }, { <<2, 0, -2, "E">> },
                  { <<2, 0, -2, "NE">> } >>,
               << { <<2, -2, 0, "E">> }, { <<-2, 2, 0, "SE">> } >>,
               << { <<-2, -1, 3, "SE">> }, { <<-3, 1, 2, "E">> } >> >>,
   city |-> << {}, {}, {} >>,
   robber |-> << {}, {}, {} >>,
   discard |-> << {}, {}, {} >>,
   plenty |-> << {}, {}, {} >>,
   monopoly |-> << {}, {}, {} >>,
   propose |-> << {}, {}, {} >>,
   bank |-> << {}, {}, {} >>]

\* Three seats; seat 0 is paid ore and wheat on a five and wood and brick on a
\* nine, turns both settlements into cities, lays three roads and buys the
\* victory-point cards that lie on top of the deck, trading wheat and ore for sheep
\* with the bank.  Its client ends a turn only with the victory points listed
\* for the turn, and holds each kind of move back until the turn listed for it.
Victory ==
  [playerCount |-> 3,
   maxTurn |-> MaxTurnVictory,
   terrains |-> <<"mountains", "forest", "hills", "pasture", "forest", "hills", "forest", "pasture", "fields",
        "pasture", "pasture", "desert", "fields", "fields", "fields", "forest", "hills", "mountains", "mountains">>,
   tokens |-> <<5, 9, 9, 10, 11, 8, 4, 2, 5, 6, 3, 12, 6, 3, 4, 11, 8, 10>>,
   portTypes |-> PortShuffle,
   deck |-> << "victoryPoint", "victoryPoint", "victoryPoint", "victoryPoint",
               "victoryPoint", "knight", "knight", "knight", "knight",
               "knight", "knight", "knight", "knight", "knight",
               "knight", "knight", "knight", "knight", "knight",
               "roadBuilding", "roadBuilding", "yearOfPlenty", "yearOfPlenty",
               "monopoly", "monopoly" >>,
   dice |-> << { <<2, 3>> }, { <<2, 3>> }, { <<2, 3>> }, { <<2, 3>> }, { <<4, 5>> },
               { <<4, 5>> }, { <<2, 3>> } >>,
   buyers |-> {0},
   roadsBeforeEnd |-> << 0 >>,
   vpBeforeEnd |-> << 2, 2, 2, 4, 2, 2, 6, 2, 2, 10 >>,
   from |-> [PLACE_CITY |-> 4, PLACE_ROAD |-> 7, BANK_TRADE |-> 10, BUY_DEV_CARD |-> 10],
   settle |-> << << { <<1, -1, 0, "S">> }, { <<0, 0, 0, "N">> } >>,
                 << { <<2, -2, 0, "N">> }, { <<-2, 2, 0, "S">> } >>,
                 << { <<-1, -1, 2, "N">> }, { <<-2, 0, 2, "S">> } >> >>,
   road |-> << << { <<0, 0, 0, "E">> }, { <<-1, 0, 1, "E">> },
                  { <<0, 0, 0, "SE">> }, { <<-1, 1, 0, "E">> }, { <<-1, 0, 1, "SE">> },
                  {} >>,
               << { <<2, -2, 0, "E">> }, { <<-2, 2, 0, "SE">> }, {} >>,
               << { <<-2, -1, 3, "SE">> }, { <<-3, 1, 2, "E">> }, {} >> >>,
   city |-> << { <<1, -1, 0, "S">>, <<0, 0, 0, "N">> }, {}, {} >>,
   robber |-> << {}, {}, {} >>,
   discard |-> << {}, {}, {} >>,
   plenty |-> << {}, {}, {} >>,
   monopoly |-> << {}, {}, {} >>,
   propose |-> << {}, {}, {} >>,
   bank |-> << { <<Bundle(0, 0, 0, 4, 0), Bundle(0, 0, 1, 0, 0)>>,
                 <<Bundle(0, 0, 0, 0, 4), Bundle(0, 0, 1, 0, 0)>> }, {}, {} >>]

\* Four seats; the first three settle around one corner and lay their roads
\* towards it, the fourth settles on the corner.
Enclosed ==
  [SetupFour EXCEPT
     !.settle = << << { <<1, -1, 0, "S">> } >>,
                   << { <<0, -1, 1, "S">> } >>,
                   << { <<-2, 1, 1, "N">> } >>,
                   << { <<0, 0, 0, "N">> } >> >>,
     !.road = << << { <<0, 0, 0, "NE">> } >>,
                 << { <<-1, 0, 1, "E">> } >>,
                 << { <<-1, 0, 1, "SE">> } >>,
                 << { <<0, 0, 0, "NE">>, <<-1, 0, 1, "E">>, <<-1, 0, 1, "SE">>,
                      <<1, 0, -1, "NE">> } >> >>]

Scenarios == {"setup", "base", "harvest", "roads", "victory", "enclosed"}

Script(sc) ==
  CASE sc = "setup" -> SetupFour
    [] sc = "base" -> Base
    [] sc = "harvest" -> Harvest
    [] sc = "roads" -> Roads
    [] sc = "victory" -> Victory
    [] sc = "enclosed" -> Enclosed

\* The entry of a script's list that applies at a count: the last one repeats.
Nth(list, i) == list[IF i < 1 THEN 1 ELSE IF i > Len(list) THEN Len(list) ELSE i]

\* The number of a seat's road (settlement) pieces that are on the board.
roadsPlaced(state, p) ==
  IF state = NoGame THEN 0 ELSE INITIAL_PIECES.roads - state.players[p].roadsRemaining

settlementsPlaced(state, p) ==
  IF state = NoGame THEN 0
  ELSE INITIAL_PIECES.settlements - state.players[p].settlementsRemaining

turnOf(state) == IF state = NoGame THEN 1 ELSE state.turnState.turnNumber

roadsOnBoard(state) ==
  IF state = NoGame THEN 0 ELSE Cardinality(DOMAIN state.board.roads)

\* The victory points of the player whose turn it is.
pointsInTurn(state) ==
  IF state = NoGame THEN 0
  ELSE calculateVP(state, state.players[state.turnState.currentPlayerIndex].id).total

\* The ids of the offers of a state, and one id that names no offer.
tradeIds(state) ==
  IF state = NoGame THEN { <<0, 0>> }
  ELSE { state.tradeOffers[i].id : i \in 1..Len(state.tradeOffers) } \cup { <<0, 0>> }

\* The messages of one type that carry only the sender's seat.
Plain(type, seats) == { [type |-> type, playerId |-> p] : p \in seats }

\* The GAME_ACTION messages of one action type that the seats' clients can
\* send (the room stamps playerId with the sender's seat).
Repertoire(script, type, state) ==
  CASE type \in {"ROLL_DICE", "PLAY_ROAD_BUILDING"} ->
         Plain(type, 0..(script.playerCount - 1))
    [] type = "BUY_DEV_CARD" -> Plain(type, script.buyers)
    [] type = "END_TURN" ->
         IF turnOf(state) >= script.maxTurn
              \/ roadsOnBoard(state) < Nth(script.roadsBeforeEnd, turnOf(state))
              \/ pointsInTurn(state) < Nth(script.vpBeforeEnd, turnOf(state))
           THEN {} ELSE Plain(type, 0..(script.playerCount - 1))
    [] type = "PLACE_SETTLEMENT" ->
         UNION { { [type |-> type, playerId |-> p, vertex |-> v] :
                     v \in Nth(script.settle[p + 1], settlementsPlaced(state, p) + 1) } :
                 p \in 0..(script.playerCount - 1) }
    [] type = "PLACE_CITY" ->
         UNION { { [type |-> type, playerId |-> p, vertex |-> v] :
                     v \in script.city[p + 1] } : p \in 0..(script.playerCount - 1) }
    [] type = "PLACE_ROAD" ->
         UNION { { [type |-> type, playerId |-> p, edge |-> e] :
                     e \in Nth(script.road[p + 1], roadsPlaced(state, p) + 1) } :
                 p \in 0..(script.playerCount - 1) }
    [] type = "MOVE_ROBBER" ->
         UNION { { [type |-> type, playerId |-> p, hex |-> h] :
                     h \in script.robber[p + 1] } : p \in 0..(script.playerCount - 1) }
    [] type = "PLAY_KNIGHT" ->
         UNION { { [type |-> type, playerId |-> p, robberHex |-> h] :
                     h \in script.robber[p + 1] } : p \in 0..(script.playerCount - 1) }
    [] type = "STEAL" ->
         { [type |-> type, playerId |-> p, targetPlayerId |-> q] :
             p \in 0..(script.playerCount - 1), q \in 0..(script.playerCount - 1) }
    [] type = "DISCARD_RESOURCES" ->
         UNION { { [type |-> type, playerId |-> p, resources |-> b] :
                     b \in script.discard[p + 1] } : p \in 0..(script.playerCount - 1) }
    [] type = "PLAY_YEAR_OF_PLENTY" ->
         UNION { { [type |-> type, playerId |-> p, resources |-> l] :
                     l \in script.plenty[p + 1] } : p \in 0..(script.playerCount - 1) }
    [] type = "PLAY_MONOPOLY" ->
         UNION { { [type |-> type, playerId |-> p, resource |-> r] :
                     r \in script.monopoly[p + 1] } : p \in 0..(script.playerCount - 1) }
    [] type = "PROPOSE_TRADE" ->
         IF state # NoGame /\ Len(state.tradeOffers) >= MaxOffers THEN {}
         ELSE UNION { { [type |-> type, playerId |-> p,
                         offering |-> t[1], requesting |-> t[2]] :
                          t \in script.propose[p + 1] } : p \in 0..(script.playerCount - 1) }
    [] type = "RESPOND_TO_TRADE" ->
         { [type |-> type, playerId |-> p, tradeId |-> id, accept |-> acc] :
             p \in 0..(script.playerCount - 1), id \in tradeIds(state), acc \in BOOLEAN }
    [] type = "CONFIRM_TRADE" ->
         { [type |-> type, playerId |-> p, tradeId |-> id, withPlayerId |-> q] :
             p \in 0..(script.playerCount - 1), id \in tradeIds(state),
             q \in 0..(script.playerCount - 1) }
    [] type = "CANCEL_TRADE" ->
         { [type |-> type, playerId |-> p, tradeId |-> id] :
             p \in 0..(script.playerCount - 1), id \in tradeIds(state) }
    [] type = "BANK_TRADE" ->
         UNION { { [type |-> type, playerId |-> p,
                    giving |-> t[1], receiving |-> t[2]] :
                     t \in script.bank[p + 1] } : p \in 0..(script.playerCount - 1) }

\* A script may hold a type of message back until a turn of the main phase.
Messages(script, type, state) ==
  IF /\ state # NoGame
     /\ state.turnState.phase = "MAIN"
     /\ type \in DOMAIN script.from
     /\ turnOf(state) < script.from[type]
    THEN {}
    ELSE Repertoire(script, type, state)

ActionTypes ==
  {"ROLL_DICE", "DISCARD_RESOURCES", "MOVE_ROBBER", "STEAL", "PLACE_SETTLEMENT",
   "PLACE_ROAD", "PLACE_CITY", "BUY_DEV_CARD", "PLAY_KNIGHT", "PLAY_ROAD_BUILDING",
   "PLAY_YEAR_OF_PLENTY", "PLAY_MONOPOLY", "PROPOSE_TRADE", "RESPOND_TO_TRADE",
   "CONFIRM_TRADE", "CANCEL_TRADE", "BANK_TRADE", "END_TURN"}

\* The values the seeded generator can yield during the dispatch of an action:
\* the two dice of a roll, the index of the stolen card in the victim's hand.
NoDraws == [dice |-> <<1, 1>>, index |-> 0]

stealIndexes(total) == 0..(IF total > 0 THEN total - 1 ELSE 0)

Draws(script, state, action) ==
  IF state = NoGame THEN { NoDraws }
  ELSE CASE action.type = "ROLL_DICE" ->
              { [dice |-> d, index |-> 0] : d \in Nth(script.dice, turnOf(state)) }
         [] action.type = "STEAL" ->
              { [dice |-> <<1, 1>>, index |-> i] :
                  i \in stealIndexes(bundleTotal(getPlayer(state, action.targetPlayerId).resources)) }
         [] OTHER -> { NoDraws }

\* new CatanServer : an empty lobby; the connections that will ever be opened
\* are open and bound to no seat.
InitialServer ==
  [rooms |-> EmptyMap,
   connections |-> [c \in 1..NumConnections |-> NewConnection],
   sent |-> << >>,
   uuids |-> 0]

Init ==
  /\ room = [gameState |-> NoGame, status |-> "waiting"]
  /\ scenario \in Scenarios
  /\ lookups = buildLookups
  /\ server = InitialServer
  /\ clock = 0
  /\ earlier = NoCall

\* The host starts the game.
StartGame ==
  /\ room' = startGame(room, [i \in 0..(Script(scenario).playerCount - 1) |-> PlayerId(i)],
                       generateBoard(Script(scenario).terrains, <<Script(scenario).tokens>>, <<0>>,
                                     Script(scenario).portTypes),
                       Script(scenario).deck)
  /\ UNCHANGED <<scenario, lookups, server, clock, earlier>>

\* One action per GAME_ACTION type : a seat's client sends a message of the
\* type and the room handles it.

RollDice ==
  \E action \in Messages(Script(scenario), "ROLL_DICE", gameState) :
    \E draws \in Draws(Script(scenario), gameState, action) :
      /\ room' = handleAction(room, action, draws).room
      /\ UNCHANGED <<scenario, lookups, server, clock, earlier>>

DiscardResources ==
  \E action \in Messages(Script(scenario), "DISCARD_RESOURCES", gameState) :
    \E draws \in Draws(Script(scenario), gameState, action) :
      /\ room' = handleAction(room, action, draws).room
      /\ UNCHANGED <<scenario, lookups, server, clock, earlier>>

MoveRobber ==
  \E action \in Messages(Script(scenario), "MOVE_ROBBER", gameState) :
    \E draws \in Draws(Script(scenario), gameState, action) :
      /\ room' = handleAction(room, action, draws).room
      /\ UNCHANGED <<scenario, lookups, server, clock, earlier>>

Steal ==
  \E action \in Messages(Script(scenario), "STEAL", gameState) :
    \E draws \in Draws(Script(scenario), gameState, action) :
      /\ room' = handleAction(room, action, draws).room
      /\ UNCHANGED <<scenario, lookups, server, clock, earlier>>

PlaceSettlement ==
  \E action \in Messages(Script(scenario), "PLACE_SETTLEMENT", gameState) :
    \E draws \in Draws(Script(scenario), gameState, action) :
      /\ room' = handleAction(room, action, draws).room
      /\ UNCHANGED <<scenario, lookups, server, clock, earlier>>

PlaceRoad ==
  \E action \in Messages(Script(scenario), "PLACE_ROAD", gameState) :
    \E draws \in Draws(Script(scenario), gameState, action) :
      /\ room' = handleAction(room, action, draws).room
      /\ UNCHANGED <<scenario, lookups, server, clock, earlier>>

PlaceCity ==
  \E action \in Messages(Script(scenario), "PLACE_CITY", gameState) :
    \E draws \in Draws(Script(scenario), gameState, action) :
      /\ room' = handleAction(room, action, draws).room
      /\ UNCHANGED <<scenario, lookups, server, clock, earlier>>

BuyDevCard ==
  \E action \in Messages(Script(scenario), "BUY_DEV_CARD", gameState) :
    \E draws \in Draws(Script(scenario), gameState, action) :
      /\ room' = handleAction(room, action, draws).room
      /\ UNCHANGED <<scenario, lookups, server, clock, earlier>>

PlayKnight ==
  \E action \in Messages(Script(scenario), "PLAY_KNIGHT", gameState) :
    \E draws \in Draws(Script(scenario), gameState, action) :
      /\ room' = handleAction(room, action, draws).room
      /\ UNCHANGED <<scenario, lookups, server, clock, earlier>>

PlayRoadBuilding ==
  \E action \in Messages(Script(scenario), "PLAY_ROAD_BUILDING", gameState) :
    \E draws \in Draws(Script(scenario), gameState, action) :
      /\ room' = handleAction(room, action, draws).room
      /\ UNCHANGED <<scenario, lookups, server, clock, earlier>>

PlayYearOfPlenty ==
  \E action \in Messages(Script(scenario), "PLAY_YEAR_OF_PLENTY", gameState) :
    \E draws \in Draws(Script(scenario), gameState, action) :
      /\ room' = handleAction(room, action, draws).room
      /\ UNCHANGED <<scenario, lookups, server, clock, earlier>>

PlayMonopoly ==
  \E action \in Messages(Script(scenario), "PLAY_MONOPOLY", gameState) :
    \E draws \in Draws(Script(scenario), gameState, action) :
      /\ room' = handleAction(room, action, draws).room
      /\ UNCHANGED <<scenario, lookups, server, clock, earlier>>

ProposeTrade ==
  \E action \in Messages(Script(scenario), "PROPOSE_TRADE", gameState) :
    \E draws \in Draws(Script(scenario), gameState, action) :
      /\ room' = handleAction(room, action, draws).room
      /\ UNCHANGED <<scenario, lookups, server, clock, earlier>>

RespondToTrade ==
  \E action \in Messages(Script(scenario), "RESPOND_TO_TRADE", gameState) :
    \E draws \in Draws(Script(scenario), gameState, action) :
      /\ room' = handleAction(room, action, draws).room
      /\ UNCHANGED <<scenario, lookups, server, clock, earlier>>

ConfirmTrade ==
  \E action \in Messages(Script(scenario), "CONFIRM_TRADE", gameState) :
    \E draws \in Draws(Script(scenario), gameState, action) :
      /\ room' = handleAction(room, action, draws).room
      /\ UNCHANGED <<scenario, lookups, server, clock, earlier>>

CancelTrade ==
  \E action \in Messages(Script(scenario), "CANCEL_TRADE", gameState) :
    \E draws \in Draws(Script(scenario), gameState, action) :
      /\ room' = handleAction(room, action, draws).room
      /\ UNCHANGED <<scenario, lookups, server, clock, earlier>>

BankTrade ==
  \E action \in Messages(Script(scenario), "BANK_TRADE", gameState) :
    \E draws \in Draws(Script(scenario), gameState, action) :
      /\ room' = handleAction(room, action, draws).room
      /\ UNCHANGED <<scenario, lookups, server, clock, earlier>>

EndTurn ==
  \E action \in Messages(Script(scenario), "END_TURN", gameState) :
    \E draws \in Draws(Script(scenario), gameState, action) :
      /\ room' = handleAction(room, action, draws).room
      /\ UNCHANGED <<scenario, lookups, server, clock, earlier>>

Next ==
  \/ StartGame
  \/ RollDice
  \/ DiscardResources
  \/ MoveRobber
  \/ Steal
  \/ PlaceSettlement
  \/ PlaceRoad
  \/ PlaceCity
  \/ BuyDevCard
  \/ PlayKnight
  \/ PlayRoadBuilding
  \/ PlayYearOfPlenty
  \/ PlayMonopoly
  \/ ProposeTrade
  \/ RespondToTrade
  \/ ConfirmTrade
  \/ CancelTrade
  \/ BankTrade
  \/ EndTurn

Spec == Init /\ [][Next]_vars

\* ===================================================================
\* The server runs that are explored.  Four connections talk to one lobby:
\* they create, join and leave a room, start games, close and, on the last
\* connection, try to reconnect; the first one also lists rooms and chats.  A game is played by script (the harvest
\* script up to its seven, or the victory script to its end) in a room whose
\* three seats were the first three issued; its clients then send what the
\* script lists and the engine accepts.  Once a game has started the lobby
\* messages arrive only until its first placement, and connections close or
\* reconnect only until then and while the game waits for discards.
\* ===================================================================

ConnIds == 1..NumConnections

\* What generateRoomId can return.
RoomIds == {"A"}

ServerScenarios == {"harvest", "victory"}

ServerScript(sc) ==
  IF sc = "harvest" THEN [Harvest EXCEPT !.maxTurn = MaxTurnServer] ELSE Script(sc)

\* Tokens a client can present: the ones issued so far or soon, never all.
Tokens == { TokenUuid(n) : n \in 0..MaxUuids }

\* The server before its handler writes to any connection.
Quiet(srv) == [srv EXCEPT !.sent = << >>]

\* No game, or a game in which nothing was placed yet.
AtStart(state) ==
  \/ state = NoGame
  \/ /\ state.turnState.phase = "SETUP"
     /\ state.turnState.setupStep = 0
     /\ state.turnState.setupSubPhase = "PLACE_SETTLEMENT"

\* The same, or a game that waits for discards.
AtGate(state) ==
  \/ AtStart(state)
  \/ /\ state.turnState.phase = "MAIN"
     /\ state.turnState.mainSubPhase = "DISCARD"

\* No game of the lobby is under way (lobby messages arrive), or none is
\* between two gates (connections close and reconnect).
Lull(srv) == \A roomId \in DOMAIN srv.rooms : AtStart(srv.rooms[roomId].gameState)

Pause(srv) == \A roomId \in DOMAIN srv.rooms : AtGate(srv.rooms[roomId].gameState)

\* A game of the lobby is over.
Finished(srv) == \E roomId \in DOMAIN srv.rooms : srv.rooms[roomId].status = "finished"

\* The room whose game the script plays: the only room, with the seats the
\* script needs, which were issued the identifiers the script uses.  The long
\* game of the victory script is played only while no connection has closed.
ScriptedRoom(srv, sc, roomId) ==
  /\ DOMAIN srv.rooms = {roomId}
  /\ srv.uuids = ServerScript(sc).playerCount
  /\ Len(srv.rooms[roomId].players) = ServerScript(sc).playerCount
  /\ sc = "harvest" \/ \A c \in ConnIds : srv.connections[c].open
  /\ \A i \in 1..Len(srv.rooms[roomId].players) :
       /\ srv.rooms[roomId].players[i].id = PlayerId(i - 1)
       /\ srv.rooms[roomId].players[i].connection \in {i, NoConnection}
  /\ srv.rooms[roomId].gameState # NoGame
  /\ srv.rooms[roomId].status = "in_progress"

\* A GAME_ACTION payload without a game to play: a roll.
Probe == [type |-> "ROLL_DICE", playerId |-> NoPlayer]

ScriptedMessages(script, state) ==
  UNION { Messages(script, type, state) : type \in ActionTypes }

\* What the client behind a connection sends as GAME_ACTION.
Payloads(srv, sc, c) ==
  IF \/ srv.connections[c].roomId = NoRoom
     \/ ~hasRoom(srv, srv.connections[c].roomId)
    THEN IF Lull(srv) THEN {Probe} ELSE {}
  ELSE IF ~ScriptedRoom(srv, sc, srv.connections[c].roomId)
    THEN IF Lull(srv) \/ Finished(srv) THEN {Probe} ELSE {}
  ELSE { m \in ScriptedMessages(ServerScript(sc),
                                 srv.rooms[srv.connections[c].roomId].gameState) :
           /\ m.playerId = srv.connections[c].playerId
           /\ validateAction(srv.rooms[srv.connections[c].roomId].gameState, m).valid }

PayloadDraws(srv, script, c, payload) ==
  IF \/ srv.connections[c].roomId = NoRoom
     \/ srv.connections[c].playerId = NoPlayer
     \/ ~hasRoom(srv, srv.connections[c].roomId)
     \/ srv.rooms[srv.connections[c].roomId].gameState = NoGame
     \/ payload = Probe
    THEN { NoDraws }
    ELSE Draws(script, srv.rooms[srv.connections[c].roomId].gameState,
               [payload EXCEPT !.playerId = srv.connections[c].playerId])

Open(c) == server.connections[c].open

\* How many connections have closed, and how many seats were given up.
Closed(srv) == Cardinality({ c \in ConnIds : ~srv.connections[c].open })

Left(srv) ==
  srv.uuids - SumOver(DOMAIN srv.rooms,
                        [roomId \in DOMAIN srv.rooms |-> Len(srv.rooms[roomId].players)])

\* A client presents a token from a new connection when the seat of the token
\* has lost its connection (or when no seat has the token).
Unattended(srv, token) ==
  \A roomId \in DOMAIN srv.rooms :
    \A i \in 1..Len(srv.rooms[roomId].players) :
      srv.rooms[roomId].players[i].token = token
        => srv.rooms[roomId].players[i].connection = NoConnection

\* The clients take their seats one after the other: connection 1 first, and
\* a client that has a seat asks for no second one.
MayTakeSeat(srv, c) ==
  /\ srv.connections[c].roomId = NoRoom
  /\ IF c = 1 THEN TRUE ELSE srv.connections[c - 1].token # NoToken
  /\ srv.uuids < MaxUuids

ServerInit ==
  /\ room = [gameState |-> NoGame, status |-> "waiting"]
  /\ scenario = "setup"
  /\ lookups = buildLookups
  /\ server = InitialServer
  /\ clock = 0
  /\ earlier = NoCall

CreateRoomMessage ==
  \E c \in ConnIds : \E roomId \in RoomIds \ DOMAIN server.rooms :
    /\ Open(c) /\ Lull(server) /\ MayTakeSeat(server, c)
    /\ Cardinality(DOMAIN server.rooms) < MaxRooms
    /\ server' = handleCreateRoom(Quiet(server), c, roomId, createRoom(Quiet(server), roomId, c))
    /\ UNCHANGED <<room, scenario, lookups, clock, earlier>>

JoinRoomMessage ==
  \E c \in ConnIds : \E roomId \in RoomIds :
    /\ Open(c) /\ Lull(server)
    /\ MayTakeSeat(server, c) \/ joinRoom(server, roomId, c).result = NoPlayer
    /\ server' = handleJoinRoom(Quiet(server), c, roomId, joinRoom(Quiet(server), roomId, c))
    /\ UNCHANGED <<room, scenario, lookups, clock, earlier>>

LeaveRoomMessage ==
  \E c \in ConnIds :
    /\ Open(c) /\ Lull(server)
    /\ Left(server) < MaxLeaves \/ leaveRoom(server, c) = server
    /\ server' = handleLeaveRoom(Quiet(server), c)
    /\ UNCHANGED <<room, scenario, lookups, clock, earlier>>

ListRoomsMessage ==
  \E c \in {1} :
    /\ Open(c) /\ Lull(server)
    /\ server' = handleListRooms(Quiet(server), c)
    /\ UNCHANGED <<room, scenario, lookups, clock, earlier>>

\* The deal of the game that a START_GAME creates is the one of a script.
StartGameMessage ==
  \E c \in ConnIds : \E sc \in ServerScenarios :
    /\ Open(c) /\ Lull(server)
    /\ server' = handleStartGame(Quiet(server), c,
                   generateBoard(ServerScript(sc).terrains, <<ServerScript(sc).tokens>>, <<0>>,
                                 ServerScript(sc).portTypes),
                   ServerScript(sc).deck)
    /\ scenario' = IF server'.rooms = server.rooms THEN scenario ELSE sc
    /\ UNCHANGED <<room, lookups, clock, earlier>>

ReconnectMessage ==
  \E c \in {NumConnections} : \E token \in Tokens :
    /\ Open(c) /\ Pause(server) /\ Unattended(server, token)
    /\ server' = handleReconnect(Quiet(server), c, token)
    /\ UNCHANGED <<room, scenario, lookups, clock, earlier>>

GameActionMessage ==
  \E c \in ConnIds :
    /\ Open(c)
    /\ \E payload \in Payloads(server, scenario, c) :
         \E draws \in PayloadDraws(server, ServerScript(scenario), c, payload) :
           server' = handleGameAction(Quiet(server), c, payload, draws)
    /\ UNCHANGED <<room, scenario, lookups, clock, earlier>>

ChatMessage ==
  \E c \in {1} :
    /\ Open(c) /\ Lull(server)
    /\ server' = handleChatMessage(Quiet(server), c, "hello")
    /\ UNCHANGED <<room, scenario, lookups, clock, earlier>>

Close ==
  \E c \in ConnIds :
    /\ Open(c) /\ Pause(server) /\ Closed(server) < MaxCloses
    /\ server' = handleClose(Quiet(server), c)
    /\ UNCHANGED <<room, scenario, lookups, clock, earlier>>

ServerNext ==
  \/ CreateRoomMessage
  \/ JoinRoomMessage
  \/ LeaveRoomMessage
  \/ ListRoomsMessage
  \/ StartGameMessage
  \/ ReconnectMessage
  \/ GameActionMessage
  \/ ChatMessage
  \/ Close

ServerSpec == ServerInit /\ [][ServerNext]_vars

\* ===================================================================
\* The runs with a clock.  The game of the "setup" script is played while
\* the wall clock of the host advances between two turns.
\* ===================================================================

MaxClock == 1

\* Between two turns, while the host waits for the roll, an accepted message
\* of the script is dispatched on the state of the game and its result is
\* set aside; then time passes.
Tick ==
  /\ clock < MaxClock
  /\ status = "in_progress" /\ gameState # NoGame
  /\ gameState.turnState.phase = "MAIN"
  /\ gameState.turnState.mainSubPhase = "ROLL_DICE"
  /\ \E type \in ActionTypes :
       \E action \in Repertoire(Script(scenario), type, gameState) :
         \E draws \in Draws(Script(scenario), gameState, action) :
           /\ validateAction(gameState, action).valid
           /\ earlier' = [state |-> gameState, action |-> action, draws |-> draws,
                          result |-> dispatch(gameState, action, draws)]
  /\ clock' = clock + 1
  /\ UNCHANGED <<room, scenario, lookups, server>>

ClockInit ==
  /\ room = [gameState |-> NoGame, status |-> "waiting"]
  /\ scenario = "setup"
  /\ lookups = buildLookups
  /\ server = InitialServer
  /\ clock = 0
  /\ earlier = NoCall

\* The messages the clients of the "setup" script send, and the clock.
ClockNext ==
  \/ StartGame
  \/ PlaceSettlement
  \/ PlaceRoad
  \/ RollDice
  \/ BuyDevCard
  \/ EndTurn
  \/ Tick

ClockSpec == ClockInit /\ [][ClockNext]_vars

\* ===================================================================
\* Properties
\* ===================================================================

\* A game is being played.
InGame == status = "in_progress" /\ gameState # NoGame

\* Every message the seats' clients can send in the current state.
AllMessages ==
  UNION { Messages(Script(scenario), type, gameState) : type \in ActionTypes }

AllDraws(action) == Draws(Script(scenario), gameState, action)

Logged(type) == InGame /\ \E i \in 1..Len(gameState.log) : gameState.log[i].type = type

\* What C1 asks of one dispatch of an action the validator refuses.
RejectedCleanly(gameRoom, validation, result, handled) ==
  /\ result.threw
  /\ result.error = "InvalidActionError"
  /\ result.message = validation.reason
  /\ handled.reply.type = "ACTION_REJECTED"
  /\ handled.reply.reason = validation.reason
  /\ handled.room = gameRoom
  /\ \A field \in {"board", "players", "turnState", "devCardDeck", "tradeOffers",
                   "bankResources", "log", "winner"} :
       handled.room.gameState[field] = gameRoom.gameState[field]

\* C1 : whenever validateAction refuses an action, dispatch ends with an
\* InvalidActionError that carries the validator's reason, and the state the
\* room holds after the call equals the state before it in every field.
C1_InvalidActionRejected ==
  InGame =>
    \A action \in AllMessages : \A draws \in AllDraws(action) :
      ~validateAction(gameState, action).valid =>
        RejectedCleanly(room, validateAction(gameState, action),
                        dispatch(gameState, action, draws),
                        handleAction(room, action, draws))

\* C1 witness : in the main phase, after a roll, a dev card purchase that the
\* validator refuses is answered with ACTION_REJECTED.
C1_Witness ==
  /\ InGame
  /\ gameState.turnState.phase = "MAIN"
  /\ gameState.turnState.mainSubPhase = "TRADE_BUILD_PLAY"
  /\ \E action \in Messages(Script(scenario), "BUY_DEV_CARD", gameState) :
       /\ action.playerId = getCurrentPlayer(gameState).id
       /\ ~validateAction(gameState, action).valid
       /\ handleAction(room, action, NoDraws).reply.type = "ACTION_REJECTED"

\* C2 : for each of the five resource types, the players' holdings plus the
\* bank's holding add up to 19.
C2_SupplyConservation ==
  InGame =>
    \A r \in ResourceTypes :
      SumOver(DOMAIN gameState.players,
              [i \in DOMAIN gameState.players |-> gameState.players[i].resources[r]])
        + gameState.bankResources[r] = BANK_RESOURCE_COUNT

\* C2 witness : cards were produced, discarded, traded with the bank and taken
\* by a Monopoly, and the bank is short of some resource.
C2_Witness ==
  /\ Logged("PRODUCE") /\ Logged("DISCARD") /\ Logged("BANK_TRADE")
  /\ Logged("PLAY_MONOPOLY") /\ Logged("BUILD_CITY")
  /\ \E r \in ResourceTypes : gameState.bankResources[r] < BANK_RESOURCE_COUNT

InMain == InGame /\ gameState.turnState.phase = "MAIN"

InSetup == InGame /\ gameState.turnState.phase = "SETUP"

Occupied(v) == v \in DOMAIN gameState.board.buildings

SettleAt(playerId, vertex) ==
  [type |-> "PLACE_SETTLEMENT", playerId |-> playerId, vertex |-> vertex]

\* C3 : no two buildings stand on the two ends of an edge; and with a single
\* settlement on the board, placed at (0,0,0,N), the next seat's settlement at
\* (1,-1,0,S) is refused for the distance rule while (1,0,-1,N) is accepted.
C3_DistanceRule ==
  InGame =>
    /\ \A e \in allEdgeCoords :
         edgeAdjacentVertices(e)[1] # edgeAdjacentVertices(e)[2] =>
           ~(Occupied(edgeAdjacentVertices(e)[1]) /\ Occupied(edgeAdjacentVertices(e)[2]))
    /\ ( /\ gameState.turnState.phase = "SETUP"
         /\ gameState.turnState.setupSubPhase = "PLACE_SETTLEMENT"
         /\ gameState.turnState.setupStep = 1
         /\ DOMAIN gameState.board.buildings = { canonicalizeVertex(<<0, 0, 0, "N">>) } )
       => /\ validateAction(gameState, SettleAt(1, <<1, -1, 0, "S">>)).reason
               = "Too close to another settlement (distance rule)"
          /\ validateAction(gameState, SettleAt(1, <<1, 0, -1, "N">>)).valid

\* The sub-phases in which the current player's action of a type is expected.
ExpectedSubPhases(type) ==
  CASE type = "ROLL_DICE" -> {"ROLL_DICE"}
    [] type = "PLAY_KNIGHT" -> {"ROLL_DICE", "TRADE_BUILD_PLAY"}
    [] type = "MOVE_ROBBER" -> {"MOVE_ROBBER"}
    [] type = "STEAL" -> {"STEAL"}
    [] type = "DISCARD_RESOURCES" -> {"DISCARD"}
    [] OTHER -> {"TRADE_BUILD_PLAY"}

\* An open offer with the id that the sender did not propose.
OpenOfferOfAnother(state, action) ==
  \E i \in 1..Len(state.tradeOffers) :
    /\ state.tradeOffers[i].id = action.tradeId
    /\ state.tradeOffers[i].status = "open"
    /\ state.tradeOffers[i].fromPlayerId # action.playerId

\* What C4 allows an accepted main-phase action to be.
TurnAuthority(state, action) ==
  IF action.playerId # getCurrentPlayer(state).id
    THEN \/ /\ action.type = "DISCARD_RESOURCES"
            /\ state.turnState.mainSubPhase = "DISCARD"
            /\ action.playerId \in DOMAIN state.turnState.pendingDiscards
         \/ /\ action.type = "RESPOND_TO_TRADE"
            /\ OpenOfferOfAnother(state, action)
    ELSE /\ state.turnState.mainSubPhase \in ExpectedSubPhases(action.type)
         /\ state.turnState.mainSubPhase = "DISCARD"
              => /\ action.type = "DISCARD_RESOURCES"
                 /\ action.playerId \in DOMAIN state.turnState.pendingDiscards

\* C4 : in MAIN an action of a player other than the current one is accepted
\* only as a listed player's DISCARD_RESOURCES in DISCARD or as a
\* RESPOND_TO_TRADE on an open offer of another player; an action of the current
\* player is accepted only in the sub-phase expected for its type.
C4_TurnAuthority ==
  InMain =>
    \A action \in AllMessages :
      validateAction(gameState, action).valid => TurnAuthority(gameState, action)

\* C4 witness : during another player's DISCARD sub-phase a listed player's
\* discard is accepted while that player's END_TURN is refused.
C4_Witness ==
  /\ InMain
  /\ gameState.turnState.mainSubPhase = "DISCARD"
  /\ \E action \in Messages(Script(scenario), "DISCARD_RESOURCES", gameState) :
       /\ action.playerId # getCurrentPlayer(gameState).id
       /\ validateAction(gameState, action).valid
       /\ ~validateAction(gameState, [type |-> "END_TURN", playerId |-> action.playerId]).valid

SeatCount == Cardinality(DOMAIN gameState.players)

\* The number of buildings (roads) of a player in a state.
buildingsOf(state, playerId) ==
  Cardinality({ v \in DOMAIN state.board.buildings :
                  state.board.buildings[v].playerId = playerId })

roadsOf(state, playerId) ==
  Cardinality({ e \in DOMAIN state.board.roads : state.board.roads[e].playerId = playerId })

\* 0, 1, ..., n-1, n-1, ..., 1, 0
SnakeOrder(n) == [k \in 1..(2 * n) |-> IF k <= n THEN k - 1 ELSE 2 * n - k]

\* The state after an accepted setup settlement : the road of the same step is
\* awaited.
SetupSettlementPlaced(state, action, after) ==
  /\ after.turnState.phase = "SETUP"
  /\ after.turnState.setupStep = state.turnState.setupStep
  /\ after.turnState.setupSubPhase = "PLACE_ROAD"
  /\ buildingsOf(after, action.playerId) = buildingsOf(state, action.playerId) + 1
  /\ Cardinality(DOMAIN after.board.buildings) = Cardinality(DOMAIN state.board.buildings) + 1

\* The state after an accepted setup road : the next step, or the main phase
\* after the last one.
SetupRoadPlaced(state, action, after) ==
  /\ \E i \in 1..2 :
       edgeAdjacentVertices(action.edge)[i] = state.turnState.lastSettlementVertex
  /\ state.board.buildings[state.turnState.lastSettlementVertex].playerId = action.playerId
  /\ roadsOf(after, action.playerId) = roadsOf(state, action.playerId) + 1
  /\ IF state.turnState.setupStep + 1 = 2 * Cardinality(DOMAIN state.players)
       THEN /\ after.turnState.phase = "MAIN"
            /\ after.turnState.mainSubPhase = "ROLL_DICE"
            /\ after.turnState.currentPlayerIndex = 0
            /\ after.turnState.turnNumber = 1
            /\ \A i \in DOMAIN after.players :
                 /\ buildingsOf(after, after.players[i].id) = 2
                 /\ roadsOf(after, after.players[i].id) = 2
       ELSE /\ after.turnState.phase = "SETUP"
            /\ after.turnState.setupStep = state.turnState.setupStep + 1
            /\ after.turnState.setupSubPhase = "PLACE_SETTLEMENT"

\* C5 : in SETUP with N = 3 or 4 players the order is 0..N-1, N-1..0; only the
\* player setupOrder[setupStep] is accepted, with a settlement and then a road
\* that touches it, once each per step; after the 2N-th road the phase is MAIN
\* with ROLL_DICE, current player 0, turn 1, and each player has 2 settlements
\* and 2 roads on the board.
C5_SetupFlow ==
  InSetup =>
    /\ SeatCount \in {3, 4}
    /\ gameState.turnState.setupOrder = SnakeOrder(SeatCount)
    /\ gameState.turnState.setupStep \in 0..(2 * SeatCount - 1)
    /\ Cardinality(DOMAIN gameState.board.roads) = gameState.turnState.setupStep
    /\ Cardinality(DOMAIN gameState.board.buildings) =
         gameState.turnState.setupStep
           + (IF gameState.turnState.setupSubPhase = "PLACE_ROAD" THEN 1 ELSE 0)
    /\ \A action \in AllMessages :
         validateAction(gameState, action).valid =>
           /\ action.playerId =
                gameState.players[SnakeOrder(SeatCount)[gameState.turnState.setupStep + 1]].id
           /\ IF gameState.turnState.setupSubPhase = "PLACE_SETTLEMENT"
                THEN /\ action.type = "PLACE_SETTLEMENT"
                     /\ SetupSettlementPlaced(gameState, action,
                                              dispatch(gameState, action, NoDraws).state)
                ELSE /\ action.type = "PLACE_ROAD"
                     /\ SetupRoadPlaced(gameState, action,
                                        dispatch(gameState, action, NoDraws).state)

\* C5 witness : four players, the eighth setup road has just been placed.
C5_Witness ==
  /\ InMain
  /\ SeatCount = 4
  /\ gameState.turnState.turnNumber = 1
  /\ gameState.turnState.mainSubPhase = "ROLL_DICE"
  /\ gameState.turnState.diceRoll = NoDice
  /\ gameState.log[Len(gameState.log)].type \in {"PLACE_ROAD", "STARTING_RESOURCES"}
  /\ Cardinality(DOMAIN gameState.board.roads) = 8

SevenDraws == { [dice |-> <<a, 7 - a>>, index |-> 0] : a \in 1..6 }

\* { p -> floor(n_p / 2) : player p holds n_p > 7 cards }
DiscardsDue(state) ==
  [q \in { state.players[i].id : i \in
             { j \in DOMAIN state.players : bundleTotal(state.players[j].resources) > 7 } } |->
     bundleTotal(getPlayer(state, q).resources) \div 2]

\* The state after an accepted roll of seven.
SevenRolled(state, after) ==
  /\ after.turnState.pendingDiscards = DiscardsDue(state)
  /\ after.turnState.mainSubPhase =
       (IF DOMAIN DiscardsDue(state) = {} THEN "MOVE_ROBBER" ELSE "DISCARD")
  /\ after.players = state.players

\* An accepted discard and the state after it.
DiscardAccepted(state, action, after) ==
  /\ action.playerId \in DOMAIN state.turnState.pendingDiscards
  /\ \A r \in ResourceTypes :
       /\ action.resources[r] >= 0
       /\ action.resources[r] <= getPlayer(state, action.playerId).resources[r]
  /\ bundleTotal(action.resources) = state.turnState.pendingDiscards[action.playerId]
  /\ after.turnState.pendingDiscards =
       MapDelete(state.turnState.pendingDiscards, action.playerId)
  /\ getPlayer(after, action.playerId).resources =
       subtractBundles(getPlayer(state, action.playerId).resources, action.resources)
  /\ after.turnState.mainSubPhase =
       (IF DOMAIN after.turnState.pendingDiscards = {} THEN "MOVE_ROBBER" ELSE "DISCARD")

\* C6 : a roll of 7 sets pendingDiscards to exactly { p -> floor(n_p / 2) : n_p > 7 }
\* and the sub-phase to MOVE_ROBBER if that is empty, else DISCARD; in DISCARD a
\* discard is accepted only from a listed player with a non-negative bundle it
\* holds of exactly the required total, it removes that player from the list,
\* and the sub-phase is MOVE_ROBBER exactly when the list has become empty.
C6_SevenRollDiscardFlow ==
  InMain =>
    /\ gameState.turnState.mainSubPhase = "DISCARD"
         => DOMAIN gameState.turnState.pendingDiscards # {}
    /\ gameState.turnState.mainSubPhase = "MOVE_ROBBER"
         => DOMAIN gameState.turnState.pendingDiscards = {}
    /\ \A action \in Messages(Script(scenario), "ROLL_DICE", gameState) :
         validateAction(gameState, action).valid =>
           \A draws \in SevenDraws :
             SevenRolled(gameState, dispatch(gameState, action, draws).state)
    /\ \A action \in Messages(Script(scenario), "DISCARD_RESOURCES", gameState) :
         validateAction(gameState, action).valid =>
           /\ gameState.turnState.mainSubPhase = "DISCARD"
           /\ DiscardAccepted(gameState, action, dispatch(gameState, action, NoDraws).state)

\* C6 witness : two players were listed after a seven, both have discarded, and
\* the robber is now to be moved.
C6_Witness ==
  /\ InMain
  /\ gameState.turnState.mainSubPhase = "MOVE_ROBBER"
  /\ Len(gameState.log) > 3
  /\ gameState.log[Len(gameState.log)].type = "DISCARD"
  /\ gameState.log[Len(gameState.log) - 1].type = "DISCARD"
  /\ gameState.log[Len(gameState.log) - 2].type = "ROLL_DICE"
  /\ gameState.turnState.diceRoll[1] + gameState.turnState.diceRoll[2] = 7

\* The players other than the mover that own a building on a vertex of the hex
\* and hold at least one card.
StealCandidates(state, hex, mover) ==
  { q \in { state.players[i].id : i \in DOMAIN state.players } :
      /\ q # mover
      /\ \E v \in hexVertices(hex) :
           /\ canonicalizeVertex(v) \in DOMAIN state.board.buildings
           /\ state.board.buildings[canonicalizeVertex(v)].playerId = q
      /\ bundleTotal(getPlayer(state, q).resources) > 0 }

handsTotal(state, ids) ==
  SumOver(ids, [q \in ids |-> bundleTotal(getPlayer(state, q).resources)])

\* The state after the robber was moved, by the number of candidates.
RobberMoved(state, hex, mover, after) ==
  IF StealCandidates(state, hex, mover) = {}
    THEN /\ after.turnState.mainSubPhase \in {"ROLL_DICE", "TRADE_BUILD_PLAY"}
         /\ \A i \in DOMAIN state.players :
              after.players[i].resources = state.players[i].resources
  ELSE IF Cardinality(StealCandidates(state, hex, mover)) = 1
    THEN /\ after.turnState.mainSubPhase \in {"ROLL_DICE", "TRADE_BUILD_PLAY"}
         /\ handsTotal(after, StealCandidates(state, hex, mover))
              = handsTotal(state, StealCandidates(state, hex, mover)) - 1
         /\ bundleTotal(getPlayer(after, mover).resources)
              = bundleTotal(getPlayer(state, mover).resources) + 1
  ELSE /\ after.turnState.mainSubPhase = "STEAL"
       /\ after.turnState.mustStealFrom = StealCandidates(state, hex, mover)

\* C7 : after the robber is moved (MOVE_ROBBER or PLAY_KNIGHT), with no
\* candidate the robber flow ends without a steal, with exactly one candidate a
\* card is stolen from it within the same dispatch, with several the sub-phase
\* is STEAL with mustStealFrom the candidate set; STEAL is accepted only for a
\* target in mustStealFrom.
C7_RobberStealFlow ==
  InMain =>
    /\ \A action \in Messages(Script(scenario), "MOVE_ROBBER", gameState) :
         validateAction(gameState, action).valid =>
           RobberMoved(gameState, action.hex, action.playerId,
                       dispatch(gameState, action, NoDraws).state)
    /\ \A action \in Messages(Script(scenario), "PLAY_KNIGHT", gameState) :
         validateAction(gameState, action).valid =>
           RobberMoved(gameState, action.robberHex, action.playerId,
                       dispatch(gameState, action, NoDraws).state)
    /\ \A action \in Messages(Script(scenario), "STEAL", gameState) :
         validateAction(gameState, action).valid =>
           action.targetPlayerId \in gameState.turnState.mustStealFrom

\* C8 : a knight accepted in ROLL_DICE leaves the turn unrolled : after it, and
\* after the STEAL that may follow it, diceRoll is still null and the sub-phase
\* is ROLL_DICE again (STEAL while a choice among candidates is awaited).
C8_KnightBeforeRoll ==
  InMain =>
    /\ \A action \in Messages(Script(scenario), "PLAY_KNIGHT", gameState) :
         (validateAction(gameState, action).valid
            /\ gameState.turnState.mainSubPhase = "ROLL_DICE") =>
           /\ dispatch(gameState, action, NoDraws).state.turnState.diceRoll = NoDice
           /\ dispatch(gameState, action, NoDraws).state.turnState.mainSubPhase
                \in {"ROLL_DICE", "STEAL"}
    /\ \A action \in Messages(Script(scenario), "STEAL", gameState) :
         (validateAction(gameState, action).valid
            /\ gameState.turnState.diceRoll = NoDice) =>
           \A draws \in AllDraws(action) :
             /\ dispatch(gameState, action, draws).state.turnState.diceRoll = NoDice
             /\ dispatch(gameState, action, draws).state.turnState.mainSubPhase = "ROLL_DICE"

PlayTypes == {"PLAY_KNIGHT", "PLAY_ROAD_BUILDING", "PLAY_YEAR_OF_PLENTY", "PLAY_MONOPOLY"}

CardTypeOf(type) ==
  CASE type = "PLAY_KNIGHT" -> "knight"
    [] type = "PLAY_ROAD_BUILDING" -> "roadBuilding"
    [] type = "PLAY_YEAR_OF_PLENTY" -> "yearOfPlenty"
    [] type = "PLAY_MONOPOLY" -> "monopoly"

\* The cards of a hand of one type acquired in one turn.
cardsOf(player, type, turn) ==
  Cardinality({ i \in 1..Len(player.devCards) :
                  /\ player.devCards[i].type = type
                  /\ player.devCards[i].turnAcquired = turn })

\* The log entries of dev-card plays since the last END_TURN.
playsThisTurn(state) ==
  Cardinality({ i \in 1..Len(state.log) :
                  /\ state.log[i].type \in PlayTypes
                  /\ \A j \in i..Len(state.log) : state.log[j].type # "END_TURN" })

\* An accepted dev-card play : a card of the type acquired in an earlier turn
\* leaves the hand, no card acquired in this turn does, and no other play was
\* made in this turn.
DevCardPlayed(state, action, after) ==
  /\ ~state.turnState.devCardPlayedThisTurn
  /\ playsThisTurn(state) = 0
  /\ \E i \in 1..Len(getPlayer(state, action.playerId).devCards) :
       /\ getPlayer(state, action.playerId).devCards[i].type = CardTypeOf(action.type)
       /\ getPlayer(state, action.playerId).devCards[i].turnAcquired
            < state.turnState.turnNumber
  /\ after.turnState.devCardPlayedThisTurn
  /\ Len(getPlayer(after, action.playerId).devCards)
       = Len(getPlayer(state, action.playerId).devCards) - 1
  /\ cardsOf(getPlayer(after, action.playerId), CardTypeOf(action.type),
             state.turnState.turnNumber)
       = cardsOf(getPlayer(state, action.playerId), CardTypeOf(action.type),
                 state.turnState.turnNumber)

\* C9 : a PLAY_KNIGHT, PLAY_ROAD_BUILDING, PLAY_YEAR_OF_PLENTY or PLAY_MONOPOLY
\* is accepted only if the player holds a card of the type with
\* turnAcquired < turnNumber and no dev card was played in the turn; the card
\* played is never one bought in the same turn, and at most one dev card is
\* played between two END_TURNs.
C9_DevCardTiming ==
  InMain =>
    /\ playsThisTurn(gameState) <= 1
    /\ gameState.turnState.devCardPlayedThisTurn <=> playsThisTurn(gameState) = 1
    /\ \A action \in AllMessages :
         (action.type \in PlayTypes /\ validateAction(gameState, action).valid) =>
           DevCardPlayed(gameState, action, dispatch(gameState, action, NoDraws).state)

\* C9 witness : the current player holds a card bought in this turn and an
\* older card of the same type was not available : the play of it is refused.
C9_Witness ==
  /\ InMain
  /\ gameState.turnState.mainSubPhase = "TRADE_BUILD_PLAY"
  /\ ~gameState.turnState.devCardPlayedThisTurn
  /\ \E action \in AllMessages :
       /\ action.type \in PlayTypes
       /\ action.playerId = getCurrentPlayer(gameState).id
       /\ cardsOf(getCurrentPlayer(gameState), CardTypeOf(action.type),
                  gameState.turnState.turnNumber) = 1
       /\ ~validateAction(gameState, action).valid

EndTurnOf(state) == [type |-> "END_TURN", playerId |-> getCurrentPlayer(state).id]

\* An accepted action of the current player while free roads are left : a road
\* that costs nothing and lowers the counter by one; once the counter is 0 the
\* turn can go on.
FreeRoadPlaced(state, action, after) ==
  /\ action.type = "PLACE_ROAD"
  /\ getPlayer(after, action.playerId).resources
       = getPlayer(state, action.playerId).resources
  /\ after.bankResources = state.bankResources
  /\ getPlayer(after, action.playerId).roadsRemaining
       = getPlayer(state, action.playerId).roadsRemaining - 1
  /\ after.turnState.roadBuildingRoadsLeft = state.turnState.roadBuildingRoadsLeft - 1
  /\ (after.turnState.roadBuildingRoadsLeft = 0 /\ after.turnState.phase = "MAIN")
       => /\ after.turnState.mainSubPhase = "TRADE_BUILD_PLAY"
          /\ validateAction(after, EndTurnOf(after)).valid

\* C10 : an accepted PLAY_ROAD_BUILDING sets roadBuildingRoadsLeft to
\* min(2, roadsRemaining); while the counter is > 0 the current player is
\* accepted only with PLACE_ROAD, which takes no resources and lowers the
\* counter by 1; with one road piece left exactly one free road is placed and
\* after it the counter is 0 and the other actions are accepted again.
C10_RoadBuilding ==
  InMain =>
    /\ gameState.turnState.roadBuildingRoadsLeft \in 0..2
    /\ gameState.turnState.roadBuildingRoadsLeft
         <= getCurrentPlayer(gameState).roadsRemaining
    /\ \A action \in Messages(Script(scenario), "PLAY_ROAD_BUILDING", gameState) :
         validateAction(gameState, action).valid =>
           dispatch(gameState, action, NoDraws).state.turnState.roadBuildingRoadsLeft
             = (IF getPlayer(gameState, action.playerId).roadsRemaining < 2
                  THEN getPlayer(gameState, action.playerId).roadsRemaining ELSE 2)
    /\ gameState.turnState.roadBuildingRoadsLeft > 0 =>
         \A action \in AllMessages \cup { EndTurnOf(gameState) } :
           (action.playerId = getCurrentPlayer(gameState).id
              /\ validateAction(gameState, action).valid) =>
             FreeRoadPlaced(gameState, action, dispatch(gameState, action, NoDraws).state)

\* C10 witness : Road Building was played with one road piece left, the one
\* free road has been placed, and the counter is back to 0.
C10_Witness ==
  /\ InMain
  /\ Len(gameState.log) > 2
  /\ gameState.log[Len(gameState.log)].type = "BUILD_ROAD"
  /\ gameState.log[Len(gameState.log) - 1].type = "PLAY_ROAD_BUILDING"
  /\ getCurrentPlayer(gameState).roadsRemaining = 0
  /\ gameState.turnState.roadBuildingRoadsLeft = 0
  /\ validateAction(gameState, EndTurnOf(gameState)).valid


\* One pair of dice for each total other than seven.
ProducingDraws ==
  { [dice |-> <<1, t - 1>>, index |-> 0] : t \in 2..6 }
    \cup { [dice |-> <<6, t - 6>>, index |-> 0] : t \in 8..12 }

\* The cards of a resource the buildings of a player claim on a total: 1 for
\* each settlement and 2 for each city standing on a corner of a hex that bears
\* the total as its token, is no desert and does not hold the robber.
Claimed(state, total, playerId, resource) ==
  LET producing ==
        { h \in hexSet :
            /\ state.board.hexes[h].numberToken = total
            /\ state.board.hexes[h].terrain # "desert"
            /\ h # state.board.robberHex
            /\ TERRAIN_RESOURCE(state.board.hexes[h].terrain) = resource }
      hits ==
        { hk \in UNION { { <<h, k>> : k \in hexVertices(h) } : h \in producing } :
            /\ hk[2] \in DOMAIN state.board.buildings
            /\ state.board.buildings[hk[2]].playerId = playerId }
  IN SumOver(hits,
       [hk \in hits |-> IF state.board.buildings[hk[2]].type = "city" THEN 2 ELSE 1])

ClaimedByAll(state, total, resource) ==
  SumOver(DOMAIN state.players,
    [i \in DOMAIN state.players |-> Claimed(state, total, state.players[i].id, resource)])

\* All or nothing for each resource: the claims are paid when the bank covers them all.
Paid(state, total, playerId, resource) ==
  IF ClaimedByAll(state, total, resource) > state.bankResources[resource]
    THEN 0
    ELSE Claimed(state, total, playerId, resource)

Produced(state, total, after) ==
  \A r \in ResourceTypes :
    /\ \A i \in DOMAIN state.players :
         after.players[i].resources[r] =
           state.players[i].resources[r] + Paid(state, total, state.players[i].id, r)
    /\ after.bankResources[r] =
         state.bankResources[r]
           - SumOver(DOMAIN state.players,
               [i \in DOMAIN state.players |-> Paid(state, total, state.players[i].id, r)])

\* C11 : on a total other than 7 every hex bearing the total, no desert and not
\* the robber's, pays the owner of each building on its corners 1 card
\* (settlement) or 2 (city) of its resource, except that a resource whose claims
\* exceed the bank's stock is paid to nobody; claims equal to the stock are paid
\* in full, and the bank is debited by exactly what is handed out.
C11_ProductionWithScarcity ==
  InMain =>
    \A action \in Messages(Script(scenario), "ROLL_DICE", gameState) :
      validateAction(gameState, action).valid =>
        \A draws \in ProducingDraws :
          Produced(gameState, draws.dice[1] + draws.dice[2],
                   dispatch(gameState, action, draws).state)


\* The longest way along the roads of a player that starts with the roads in
\* visited and has arrived at vertex: it goes on over an unused road of the
\* player that ends at the vertex, unless another player's building stands there.
RECURSIVE trailFrom(_, _, _, _)
trailFrom(state, playerId, vertex, visited) ==
  MaxOf({ Cardinality(visited) } \cup
        { trailFrom(state, playerId, nextVertexOf(edgeAdjacentVertices(e), vertex),
                    visited \cup {e}) :
            e \in { k \in DOMAIN state.board.roads :
                      /\ state.board.roads[k].playerId = playerId
                      /\ k \notin visited
                      /\ vertex \in SeqToSet(edgeAdjacentVertices(k))
                      /\ ~isBlocked(state, playerId, vertex) } })

\* The largest number of roads of a player on a way that uses no road twice
\* and does not continue through a vertex holding another player's building.
TrailLength(state, playerId) ==
  MaxOf({ 0 } \cup
        UNION { { trailFrom(state, playerId, v, {e}) :
                    v \in SeqToSet(edgeAdjacentVertices(e)) } :
                e \in { k \in DOMAIN state.board.roads :
                          state.board.roads[k].playerId = playerId } })

\* C12 : for every player and every reachable board calculateLongestRoad is the
\* largest number of edges of a path through the player's roads that uses no
\* edge twice and does not continue through a vertex holding another player's
\* building.
C12_LongestRoadLength ==
  InGame =>
    \A i \in DOMAIN gameState.players :
      calculateLongestRoad(gameState, gameState.players[i].id)
        = TrailLength(gameState, gameState.players[i].id)


\* The players (by index) whose hasLongestRoad flag is set.
holdersOf(state) == { i \in DOMAIN state.players : state.players[i].hasLongestRoad }

\* Who holds the bonus once the lengths are known: nobody below 5; the holder
\* while at the maximum; else the only player at the maximum; else nobody.
AwardedTo(holders, lengths) ==
  LET top == { i \in DOMAIN lengths :
                 \A j \in DOMAIN lengths : lengths[j] <= lengths[i] }
  IN IF \A i \in DOMAIN lengths : lengths[i] < 5 THEN {}
     ELSE IF holders \cap top # {} THEN holders \cap top
     ELSE IF Cardinality(top) = 1 THEN top
     ELSE {}

\* The messages that place a road or a settlement.
Placements ==
  Messages(Script(scenario), "PLACE_ROAD", gameState)
    \cup Messages(Script(scenario), "PLACE_SETTLEMENT", gameState)

\* C13 : after every accepted road or settlement placement, and for any lengths
\* the recomputation may find, a player holds the longest-road bonus only with
\* length >= 5; the holder keeps it while at the maximum (a tie does not
\* transfer); a holder strictly surpassed by one player loses it to that
\* player; when the holder is below the maximum and several tie at it, or
\* nobody holds and the maximum is tied, or the maximum is below 5, nobody holds.
C13_LongestRoadAward ==
  InGame =>
    /\ \A action \in Placements :
         validateAction(gameState, action).valid =>
           holdersOf(dispatch(gameState, action, NoDraws).state)
             = AwardedTo(holdersOf(gameState),
                 [i \in DOMAIN gameState.players |->
                    TrailLength(dispatch(gameState, action, NoDraws).state,
                                gameState.players[i].id)])
    /\ \A lengths \in [DOMAIN gameState.players -> 4..6] :
         holdersOf(awardLongestRoad(gameState, lengths))
           = AwardedTo(holdersOf(gameState), lengths)


\* The players (by index) whose hasLargestArmy flag is set.
armyHoldersOf(state) == { i \in DOMAIN state.players : state.players[i].hasLargestArmy }

\* The state with the given knight counts, and the largest army held by the
\* player at index holder (by nobody when holder is no index).
WithArmies(state, knights, holder) ==
  [state EXCEPT !.players =
     [i \in DOMAIN state.players |->
        [state.players[i] EXCEPT !.knightsPlayed = knights[i],
                                 !.hasLargestArmy = (i = holder)]]]

\* C14 : in every reachable state at most one player has hasLongestRoad set and
\* at most one has hasLargestArmy set, and neither recomputation, whatever road
\* lengths and knight counts it meets, sets a flag for two players.
C14_SingleHolders ==
  InGame =>
    /\ Cardinality(holdersOf(gameState)) <= 1
    /\ Cardinality(armyHoldersOf(gameState)) <= 1
    /\ \A lengths \in [DOMAIN gameState.players -> 4..6] :
         Cardinality(holdersOf(awardLongestRoad(gameState, lengths))) <= 1
    /\ \A knights \in [DOMAIN gameState.players -> 2..4] :
         \A holder \in DOMAIN gameState.players \cup {NoPlayer} :
           Cardinality(armyHoldersOf(
             updateLargestArmy(WithArmies(gameState, knights, holder)))) <= 1

\* C14 witness : a player holds the longest road, alone, after a further
\* road was placed and the bonus recomputed.
C14_Witness ==
  /\ InGame
  /\ \E i \in holdersOf(gameState) : gameState.players[i].roadLength = 6


\* The room holds a game, running or finished.
Started == gameState # NoGame

\* The score of the player at index i: settlements x1 + cities x2 + 2 for the
\* longest road + 2 for the largest army + victory-point cards.
Score(state, i) ==
  Cardinality({ v \in DOMAIN state.board.buildings :
                  /\ state.board.buildings[v].playerId = state.players[i].id
                  /\ state.board.buildings[v].type = "settlement" })
    + 2 * Cardinality({ v \in DOMAIN state.board.buildings :
                          /\ state.board.buildings[v].playerId = state.players[i].id
                          /\ state.board.buildings[v].type = "city" })
    + (IF state.players[i].hasLongestRoad THEN 2 ELSE 0)
    + (IF state.players[i].hasLargestArmy THEN 2 ELSE 0)
    + Cardinality({ k \in 1..Len(state.players[i].devCards) :
                      state.players[i].devCards[k].type = "victoryPoint" })

\* What the victory check leaves behind: the player in turn has won with 10 or
\* more, and otherwise nobody has.
VictoryDecided(state) ==
  IF Score(state, state.turnState.currentPlayerIndex) >= 10
    THEN /\ state.turnState.phase = "GAME_OVER"
         /\ state.winner = state.players[state.turnState.currentPlayerIndex].id
    ELSE /\ state.turnState.phase = "MAIN"
         /\ state.winner = NoPlayer

\* The state in which the player at index i holds n more victory-point cards.
WithVictoryCards(state, i, n) ==
  [state EXCEPT !.players[i].devCards =
     @ \o [k \in 1..n |-> [type |-> "victoryPoint", turnAcquired |-> 1]]]

\* C15 : after every accepted dispatch whose result is in MAIN, the player in
\* turn in the result is the winner, and the phase GAME_OVER, if that player's
\* score is 10 or more, and otherwise the winner stays null; a player who is
\* not in turn is never made winner, whatever the score; the winner is non-null
\* exactly when the phase is GAME_OVER.
C15_VictoryDetection ==
  Started =>
    /\ (gameState.winner # NoPlayer) = (gameState.turnState.phase = "GAME_OVER")
    /\ \A action \in AllMessages :
         validateAction(gameState, action).valid =>
           \A draws \in AllDraws(action) :
             dispatch(gameState, action, draws).state.turnState.phase
                 \in {"MAIN", "GAME_OVER"}
               => VictoryDecided(dispatch(gameState, action, draws).state)
    /\ gameState.turnState.phase = "MAIN" =>
         \A i \in DOMAIN gameState.players : \A n \in 0..8 :
           VictoryDecided(checkVictory(WithVictoryCards(gameState, i, n)))

\* C15 witness : the player in turn has bought the card that brings the score
\* to 10 and the game is over with that player as the winner.
C15_Witness ==
  /\ Started
  /\ gameState.turnState.phase = "GAME_OVER"
  /\ gameState.winner = gameState.players[gameState.turnState.currentPlayerIndex].id
  /\ Score(gameState, gameState.turnState.currentPlayerIndex) = 10
  /\ status = "finished"


\* Every message of the scripts' repertoire, held back or not, and the plain
\* messages of every seat.
AnyMessages ==
  UNION { Repertoire(Script(scenario), type, gameState) : type \in ActionTypes }
    \cup UNION { Plain(type, DOMAIN gameState.players) :
                   type \in {"ROLL_DICE", "END_TURN", "BUY_DEV_CARD", "PLAY_ROAD_BUILDING"} }

GameOver == Started /\ gameState.turnState.phase = "GAME_OVER"

\* In GAME_OVER the engine rejects every message and the room keeps its state.
GameOverRejects ==
  GameOver =>
    \A action \in AnyMessages :
      /\ ~validateAction(gameState, action).valid
      /\ validateAction(gameState, action).reason = "Game is over"
      /\ dispatch(gameState, action, NoDraws).threw
      /\ dispatch(gameState, action, NoDraws).state = gameState
      /\ handleAction(room, action, NoDraws).room = room

\* C16 : GAME_OVER is terminal: once the phase is GAME_OVER every action of
\* every player is rejected, and the winner, the board, all holdings and the
\* turn state never change again.
C16_GameOverTerminal ==
  /\ []GameOverRejects
  /\ [][GameOver => room' = room]_vars

\* C16 witness : the game is over and the seats still have messages to send.
C16_Witness ==
  /\ GameOver
  /\ \E action \in AnyMessages : action.type = "END_TURN"
  /\ \E action \in AnyMessages : action.type = "BANK_TRADE"


\* The bundle of n cards of one resource and nothing else.
Only(resource, n) == [r \in ResourceTypes |-> IF r = resource THEN n ELSE 0]

\* The rate of a player for a resource: 2 with the 2:1 port of the resource,
\* else 3 with a generic port, else 4.
RateOf(player, resource) ==
  IF resource \in player.portsAccess THEN 2
  ELSE IF "generic" \in player.portsAccess THEN 3
  ELSE 4

\* A bank trade as the rules allow it, and what it does to the holdings.
BankTraded(state, action, after) ==
  /\ \E g \in ResourceTypes : \E r \in ResourceTypes \ {g} :
       /\ action.giving = Only(g, RateOf(getPlayer(state, action.playerId), g))
       /\ action.receiving = Only(r, 1)
       /\ getPlayer(state, action.playerId).resources[g] >= action.giving[g]
       /\ state.bankResources[r] >= 1
  /\ \A r \in ResourceTypes :
       /\ getPlayer(after, action.playerId).resources[r] =
            getPlayer(state, action.playerId).resources[r]
              - action.giving[r] + action.receiving[r]
       /\ after.bankResources[r] =
            state.bankResources[r] + action.giving[r] - action.receiving[r]
  /\ \A i \in DOMAIN state.players :
       state.players[i].id # action.playerId => after.players[i] = state.players[i]

\* C17 : BANK_TRADE is accepted only if the player gives exactly N cards of one
\* resource and nothing else, receives exactly 1 card of another resource and
\* nothing else, holds the N cards and the bank holds the requested card, N
\* being 2 with the 2:1 port of the given resource, else 3 with a generic port,
\* else 4; the player's and the bank's holdings then change by these amounts.
C17_BankTrade ==
  InMain =>
    \A action \in Messages(Script(scenario), "BANK_TRADE", gameState) :
      validateAction(gameState, action).valid =>
        BankTraded(gameState, action, dispatch(gameState, action, NoDraws).state)


\* The offer with the id, the record NoOffer when the state has none.
NoOffer == [id |-> << >>, status |-> "none"]
OfferOf(state, tradeId) ==
  IF findOfferIndex(state, tradeId) = 0 THEN NoOffer
  ELSE state.tradeOffers[findOfferIndex(state, tradeId)]

\* What the rules require of a confirmation of the offer.
Confirmable(state, action) ==
  LET offer == OfferOf(state, action.tradeId) IN
  /\ offer # NoOffer
  /\ offer.fromPlayerId = action.playerId
  /\ offer.status = "open"
  /\ action.withPlayerId \in DOMAIN offer.responses
  /\ offer.responses[action.withPlayerId] = "accepted"
  /\ \A r \in ResourceTypes :
       /\ getPlayer(state, action.playerId).resources[r] >= offer.offering[r]
       /\ getPlayer(state, action.withPlayerId).resources[r] >= offer.requesting[r]

\* What a confirmation does: the two bundles swap between the two players,
\* nobody else's hand and no bank stock change, the offer is executed.
Swapped(state, action, after) ==
  LET offer == OfferOf(state, action.tradeId) IN
  /\ \A r \in ResourceTypes :
       /\ getPlayer(after, action.playerId).resources[r] =
            getPlayer(state, action.playerId).resources[r]
              - offer.offering[r] + offer.requesting[r]
       /\ getPlayer(after, action.withPlayerId).resources[r] =
            getPlayer(state, action.withPlayerId).resources[r]
              + offer.offering[r] - offer.requesting[r]
  /\ \A i \in DOMAIN state.players :
       state.players[i].id \notin {action.playerId, action.withPlayerId}
         => after.players[i].resources = state.players[i].resources
  /\ after.bankResources = state.bankResources
  /\ OfferOf(after, action.tradeId).status = "executed"

\* No message about an executed offer is accepted.
ExecutedIsFinal(script, state) ==
  \A type \in {"CONFIRM_TRADE", "RESPOND_TO_TRADE", "CANCEL_TRADE"} :
    \A action \in Repertoire(script, type, state) :
      OfferOf(state, action.tradeId).status = "executed"
        => ~validateAction(state, action).valid

\* C18 : CONFIRM_TRADE is accepted only from the proposer, on an open offer,
\* naming a counterparty whose recorded response is accepted, and only if at
\* that moment the proposer holds the offering and the counterparty holds the
\* requesting bundle; on success exactly the two bundles swap between the two
\* players, the bank is unchanged and the offer becomes executed, after which
\* it can never be confirmed, answered or cancelled again.
C18_PlayerTradeExecution ==
  InMain =>
    /\ \A action \in Repertoire(Script(scenario), "CONFIRM_TRADE", gameState) :
         validateAction(gameState, action).valid =>
           /\ Confirmable(gameState, action)
           /\ Swapped(gameState, action, dispatch(gameState, action, NoDraws).state)
    /\ ExecutedIsFinal(Script(scenario), gameState)

\* C18 witness: an offer has been executed between two players.
C18_Witness ==
  /\ InMain
  /\ \E i \in 1..Len(gameState.tradeOffers) : gameState.tradeOffers[i].status = "executed"


\* The offers of the state that are open.
OpenOffers(state) ==
  { i \in 1..Len(state.tradeOffers) : state.tradeOffers[i].status = "open" }

\* What the end of a turn does to the turn state and to the offers.
TurnEnded(state, after) ==
  LET ending == getCurrentPlayer(state).id IN
  /\ after.turnState.currentPlayerIndex =
       (state.turnState.currentPlayerIndex + 1) % Cardinality(DOMAIN state.players)
  /\ after.turnState.turnNumber = state.turnState.turnNumber + 1
  /\ after.turnState.mainSubPhase = "ROLL_DICE"
  /\ after.turnState.diceRoll = NoDice
  /\ ~after.turnState.devCardPlayedThisTurn
  /\ ~after.turnState.devCardBoughtThisTurn
  /\ after.turnState.roadBuildingRoadsLeft = 0
  /\ after.turnState.mustStealFrom = {}
  /\ Len(after.tradeOffers) = Len(state.tradeOffers)
  /\ \A i \in 1..Len(state.tradeOffers) :
       IF state.tradeOffers[i].status = "open" /\ state.tradeOffers[i].fromPlayerId = ending
         THEN after.tradeOffers[i] = [state.tradeOffers[i] EXCEPT !.status = "cancelled"]
         ELSE after.tradeOffers[i] = state.tradeOffers[i]

\* What the end of a turn leaves alone.
TurnEndFrame(state, after) ==
  /\ after.board = state.board
  /\ after.bankResources = state.bankResources
  /\ after.devCardDeck = state.devCardDeck
  /\ \A i \in DOMAIN state.players :
       /\ after.players[i].resources = state.players[i].resources
       /\ after.players[i].devCards = state.players[i].devCards

\* C19 : END_TURN is accepted only in TRADE_BUILD_PLAY with no Road Building
\* road left to place; it passes the turn to the next seat, adds one to the
\* turn number, sets the sub-phase to ROLL_DICE, clears the dice, the dev-card
\* flags, roadBuildingRoadsLeft and mustStealFrom, cancels every open offer of
\* the ending player, and leaves the board, all hands, the bank and the deck
\* unchanged; no offer is open while a turn waits for its roll.
C19_EndTurn ==
  InMain =>
    /\ \A p \in DOMAIN gameState.players :
         LET action == [type |-> "END_TURN", playerId |-> gameState.players[p].id] IN
         validateAction(gameState, action).valid =>
           /\ gameState.turnState.mainSubPhase = "TRADE_BUILD_PLAY"
           /\ gameState.turnState.roadBuildingRoadsLeft = 0
           /\ TurnEnded(gameState, dispatch(gameState, action, NoDraws).state)
           /\ TurnEndFrame(gameState, dispatch(gameState, action, NoDraws).state)
    /\ gameState.turnState.mainSubPhase = "ROLL_DICE" => OpenOffers(gameState) = {}

\* C19 witness: a turn has ended and an offer of the player who ended it, never
\* executed, is cancelled, while another turn waits for its roll.
C19_Witness ==
  /\ InMain
  /\ gameState.turnState.mainSubPhase = "ROLL_DICE"
  /\ gameState.turnState.turnNumber > 1
  /\ \E i \in 1..Len(gameState.tradeOffers) : gameState.tradeOffers[i].status = "cancelled"
  /\ gameState.log[Len(gameState.log)].type = "END_TURN"


\* The ways in which the hidden part of the other seats is redrawn: all the
\* resource cards of a seat become cards of one type (or stay), all its dev
\* cards become victory-point cards bought at the start or knights bought in
\* the current turn (or stay), its ports become all ports (or stay), and the
\* deck is reversed (or stays).
Redraws ==
  [resource : {"same", "wood", "ore"},
   devCard : {"same", "victoryPoint", "knight"},
   ports : {"same", "all"},
   deck : {"same", "reversed"}]

RedrawnPlayer(state, player, redraw) ==
  [player EXCEPT
     !.resources = IF redraw.resource = "same" THEN @
                   ELSE Only(redraw.resource, bundleTotal(@)),
     !.devCards = IF redraw.devCard = "same" THEN @
                  ELSE [j \in 1..Len(@) |->
                          [type |-> redraw.devCard,
                           turnAcquired |-> IF redraw.devCard = "knight"
                                              THEN state.turnState.turnNumber ELSE 0]],
     !.portsAccess = IF redraw.ports = "same" THEN @ ELSE ResourceTypes \cup {"generic"}]

\* The state that differs from the given one only in what the viewer must not
\* see: the other seats' split of cards, dev cards and ports, and the deck order.
Redrawn(state, viewer, redraw) ==
  [state EXCEPT
     !.players = [i \in DOMAIN state.players |->
                    IF state.players[i].id = viewer THEN state.players[i]
                    ELSE RedrawnPlayer(state, state.players[i], redraw)],
     !.devCardDeck = IF redraw.deck = "same" THEN @
                     ELSE [j \in 1..Len(@) |-> @[Len(@) + 1 - j]]]

\* The entry of the viewer in its own view.
OwnView(state, viewer) ==
  LET i == CHOOSE i \in DOMAIN state.players : state.players[i].id = viewer IN
  filterStateForPlayer(state, viewer).players[i]

\* C20 : the projection sent to a viewer is the same for two states that differ
\* only in how the other players' resource cards are split over the types
\* (equal totals), in which dev cards they hold and when they got them (equal
\* hand sizes), in their port access and in the order of the deck (equal
\* length); the viewer's own entry holds its full resource bundle, its dev-card
\* list and its port access.
C20_HiddenInformation ==
  Started =>
    \A v \in DOMAIN gameState.players :
      LET viewer == gameState.players[v].id IN
      /\ \A redraw \in Redraws :
           filterStateForPlayer(Redrawn(gameState, viewer, redraw), viewer)
             = filterStateForPlayer(gameState, viewer)
      /\ OwnView(gameState, viewer).resources = gameState.players[v].resources
      /\ OwnView(gameState, viewer).devCards = gameState.players[v].devCards
      /\ OwnView(gameState, viewer).portsAccess = gameState.players[v].portsAccess

\* C20 witness: a viewer holding resource cards looks at a game in
\* which another seat holds a victory-point card besides resource cards of two
\* types, so that redrawing the hidden part gives a different state.
C20_Witness ==
  /\ Started
  /\ \E v \in DOMAIN gameState.players : \E o \in DOMAIN gameState.players \ {v} :
       /\ bundleTotal(gameState.players[v].resources) > 0
       /\ \E j \in 1..Len(gameState.players[o].devCards) :
            gameState.players[o].devCards[j].type = "victoryPoint"
       /\ Cardinality({ r \in ResourceTypes : gameState.players[o].resources[r] > 0 }) >= 2
       /\ Redrawn(gameState, gameState.players[v].id,
                  [resource |-> "wood", devCard |-> "knight", ports |-> "all",
                   deck |-> "reversed"]) # gameState


\* The connection is open and bound to a seat of a room that holds a game.
BoundToGame(srv, c) ==
  /\ srv.connections[c].open
  /\ srv.connections[c].roomId # NoRoom
  /\ hasRoom(srv, srv.connections[c].roomId)
  /\ \E i \in 1..Len(srv.rooms[srv.connections[c].roomId].players) :
       srv.rooms[srv.connections[c].roomId].players[i].id = srv.connections[c].playerId
  /\ srv.rooms[srv.connections[c].roomId].gameState # NoGame

\* The payloads of GAME_ACTION messages: in a room that plays a script, every
\* message of the script's repertoire, naming any seat as its player; a plain
\* roll everywhere.
AnyPayloads(srv, sc, roomId) ==
  IF ScriptedRoom(srv, sc, roomId)
    THEN UNION { Repertoire(ServerScript(sc), type, srv.rooms[roomId].gameState) :
                   type \in ActionTypes } \cup {Probe}
    ELSE {Probe}

\* The STATE_UPDATE messages for the seats of a room whose connection is open.
Updates(srv, gameRoom) ==
  { [to |-> gameRoom.players[i].connection,
     msg |-> [type |-> "STATE_UPDATE",
              state |-> filterStateForPlayer(gameRoom.gameState, gameRoom.players[i].id)]] :
      i \in { j \in 1..Len(gameRoom.players) :
                /\ gameRoom.players[j].connection # NoConnection
                /\ srv.connections[gameRoom.players[j].connection].open } }

\* The answer to a GAME_ACTION of a connection, result being what dispatch
\* returns for the payload stamped with the id of the connection's seat: either
\* the new state is stored and its projection goes to every open seat, or the
\* state is kept and the rejection goes to the sender alone.
Answered(srv, c, roomId, payload, result, after) ==
  IF ~result.threw
    THEN /\ after.rooms[roomId].gameState = result.state
         /\ SeqToSet(after.sent) = Updates(after, after.rooms[roomId])
         /\ Len(after.sent) = Cardinality(Updates(after, after.rooms[roomId]))
    ELSE /\ after.rooms[roomId].gameState = srv.rooms[roomId].gameState
         /\ after.sent = << [to |-> c,
                             msg |-> [type |-> "ACTION_REJECTED", action |-> payload,
                                      reason |-> result.message]] >>

\* C21 : every GAME_ACTION from a connection bound to a seat of a room with a
\* game is dispatched with playerId set to that seat's id, whatever the payload
\* names, and is answered by exactly one of: a STATE_UPDATE with the
\* recipient's projection of the new state to every seat with an open
\* connection, or an ACTION_REJECTED with the original action and the reason
\* to the sender only; this includes every action sent after the game is over.
C21_ActionPath ==
  \A c \in ConnIds :
    BoundToGame(server, c) =>
      \A payload \in AnyPayloads(server, scenario, server.connections[c].roomId) :
        \A draws \in PayloadDraws(server, ServerScript(scenario), c, payload) :
          Answered(server, c, server.connections[c].roomId, payload,
                   dispatch(server.rooms[server.connections[c].roomId].gameState,
                            [payload EXCEPT !.playerId = server.connections[c].playerId],
                            draws),
                   handleGameAction(Quiet(server), c, payload, draws))


\* The seats that were issued the token: pairs of a room and an index.
SeatsOfToken(srv, token) ==
  { s \in (DOMAIN srv.rooms) \X (1..maxPlayers) :
      /\ s[2] <= Len(srv.rooms[s[1]].players)
      /\ srv.rooms[s[1]].players[s[2]].token = token }

\* What a successful reconnect of the seat leaves: the seat is bound to the
\* connection; in a room with a game the player is connected again, the
\* connection got RECONNECTED with the player's projection of the state, and
\* the other seats with a connection got PLAYER_RECONNECTED.
Rebound(roomId, seat, c, after) ==
  /\ after.rooms[roomId].players[seat].connection = c
  /\ after.connections[c].roomId = roomId
  /\ after.connections[c].playerId = after.rooms[roomId].players[seat].id
  /\ after.rooms[roomId].gameState # NoGame =>
       /\ getPlayer(after.rooms[roomId].gameState,
                    after.rooms[roomId].players[seat].id).connected
       /\ \E k \in 1..Len(after.sent) :
            after.sent[k] =
              [to |-> c,
               msg |-> [type |-> "RECONNECTED",
                        state |-> filterStateForPlayer(after.rooms[roomId].gameState,
                                                       after.rooms[roomId].players[seat].id)]]
       /\ \A i \in 1..Len(after.rooms[roomId].players) :
            (i # seat /\ after.rooms[roomId].players[i].connection # NoConnection) =>
              \E k \in 1..Len(after.sent) :
                after.sent[k] =
                  [to |-> after.rooms[roomId].players[i].connection,
                   msg |-> [type |-> "PLAYER_RECONNECTED",
                            playerId |-> after.rooms[roomId].players[seat].id]]

\* No message of the sequence is the error of a failed reconnect.
NoReconnectError(sent) ==
  \A k \in 1..Len(sent) : sent[k].msg # Error("Reconnection failed")

\* C22 : a RECONNECT with the token of a seat of any existing room, a room
\* with a game in progress included, binds the seat to the new connection,
\* sets the player's connected flag, sends RECONNECTED with the player's
\* filtered state to it and PLAYER_RECONNECTED to the other seats; ERROR
\* "Reconnection failed" is sent only when no seat of any room has the token.
C22_Reconnect ==
  \A c \in {NumConnections} : \A token \in Tokens :
    (server.connections[c].open /\ Unattended(server, token)) =>
      IF SeatsOfToken(server, token) # {}
        THEN /\ \A s \in SeatsOfToken(server, token) :
                  Rebound(s[1], s[2], c, handleReconnect(Quiet(server), c, token))
             /\ NoReconnectError(handleReconnect(Quiet(server), c, token).sent)
        ELSE handleReconnect(Quiet(server), c, token).sent =
               << [to |-> c, msg |-> Error("Reconnection failed")] >>


\* The two states differ at most in the connected flags of their players.
SameButConnected(before, after) ==
  /\ DOMAIN after = DOMAIN before
  /\ \A f \in DOMAIN before \ {"players"} : after[f] = before[f]
  /\ DOMAIN after.players = DOMAIN before.players
  /\ \A i \in DOMAIN before.players :
       [after.players[i] EXCEPT !.connected = before.players[i].connected] = before.players[i]

\* The close of the connection of a seat leaves the room's status and, apart
\* from the seat's flag, its state as they were; the flag is false afterwards.
ClosedSeat(srv, c, roomId, playerId, after) ==
  /\ after.rooms[roomId].status = srv.rooms[roomId].status
  /\ SameButConnected(srv.rooms[roomId].gameState, after.rooms[roomId].gameState)
  /\ \A i \in DOMAIN srv.rooms[roomId].gameState.players :
       after.rooms[roomId].gameState.players[i].connected =
         IF srv.rooms[roomId].gameState.players[i].id = playerId
           THEN FALSE
           ELSE srv.rooms[roomId].gameState.players[i].connected

\* The players of a state who owe a discard while their connection is gone.
AbsentDebtors(state) ==
  { i \in DOMAIN state.players :
      /\ ~state.players[i].connected
      /\ state.turnState.phase = "MAIN"
      /\ state.turnState.mainSubPhase = "DISCARD"
      /\ state.players[i].id \in DOMAIN state.turnState.pendingDiscards }

\* The player still owes the same discard and the sub-phase is DISCARD.
StillOwes(state, i, after) ==
  /\ after.turnState.phase = "MAIN"
  /\ after.turnState.mainSubPhase = "DISCARD"
  /\ state.players[i].id \in DOMAIN after.turnState.pendingDiscards
  /\ after.turnState.pendingDiscards[state.players[i].id] =
       state.turnState.pendingDiscards[state.players[i].id]
  /\ after.players[i].resources = state.players[i].resources

\* C23 : the close of a seat's connection during a game changes nothing in the
\* GameState except that player's connected flag, which becomes false (turn
\* state, trade offers, holdings and board are kept); and while a player who
\* is listed in pendingDiscards is disconnected, no message of another seat
\* and no further close ends the DISCARD sub-phase or removes the player's
\* pending discard.
C23_Disconnect ==
  \A c \in ConnIds :
    BoundToGame(server, c) =>
      /\ ClosedSeat(server, c, server.connections[c].roomId, server.connections[c].playerId,
                    handleClose(Quiet(server), c))
      /\ \A i \in AbsentDebtors(server.rooms[server.connections[c].roomId].gameState) :
           /\ StillOwes(server.rooms[server.connections[c].roomId].gameState, i,
                        handleClose(Quiet(server), c).rooms[server.connections[c].roomId].gameState)
           /\ \A payload \in AnyPayloads(server, scenario, server.connections[c].roomId) :
                \A draws \in PayloadDraws(server, ServerScript(scenario), c, payload) :
                  StillOwes(server.rooms[server.connections[c].roomId].gameState, i,
                            handleGameAction(Quiet(server), c, payload, draws)
                              .rooms[server.connections[c].roomId].gameState)

\* A seat's connection was closed during the game while its player owed a
\* discard: the player is marked disconnected, the other seats are still
\* connected and the discard is still pending.
C23_Witness ==
  \E roomId \in DOMAIN server.rooms :
    /\ server.rooms[roomId].gameState # NoGame
    /\ AbsentDebtors(server.rooms[roomId].gameState) # {}
    /\ \E c \in ConnIds : BoundToGame(server, c)
    /\ \E k \in 1..Len(server.sent) : server.sent[k].msg.type = "PLAYER_DISCONNECTED"


\* The ids of the seats of a room.
SeatIds(gameRoom) == { gameRoom.players[i].id : i \in 1..Len(gameRoom.players) }

\* The room ids a JOIN_ROOM may name: those of the lobby and one of no room.
NamedRooms == RoomIds \cup {"Z"}

\* The join was accepted: the room has one seat more, the new and last one,
\* bound to the connection, and the connection was told ROOM_JOINED.
JoinAccepted(srv, c, roomId, after) ==
  /\ hasRoom(after, roomId)
  /\ Len(after.rooms[roomId].players) = Len(srv.rooms[roomId].players) + 1
  /\ SubSeq(after.rooms[roomId].players, 1, Len(srv.rooms[roomId].players)) =
       srv.rooms[roomId].players
  /\ after.rooms[roomId].players[Len(after.rooms[roomId].players)].connection = c
  /\ after.rooms[roomId].players[Len(after.rooms[roomId].players)].id \notin
       SeatIds(srv.rooms[roomId])
  /\ \E k \in 1..Len(after.sent) :
       /\ after.sent[k].to = c
       /\ after.sent[k].msg.type = "ROOM_JOINED"
       /\ after.sent[k].msg.playerId =
            after.rooms[roomId].players[Len(after.rooms[roomId].players)].id

\* The join was refused: the rooms are as before and the sender got the error.
JoinRefused(srv, c, after) ==
  /\ after.rooms = srv.rooms
  /\ after.sent = << [to |-> c, msg |-> Error("Failed to join room (full or not found)")] >>

\* The gate of JOIN_ROOM.
JoinGate(srv, roomId) ==
  /\ hasRoom(srv, roomId)
  /\ srv.rooms[roomId].status = "waiting"
  /\ Len(srv.rooms[roomId].players) < 4

\* JOIN_ROOM, whoever sends it and whatever room it names, is accepted exactly
\* when the gate is open and is refused otherwise.
JoinDecided ==
  \A c \in ConnIds : \A roomId \in NamedRooms :
    server.connections[c].open =>
      IF JoinGate(server, roomId)
        THEN JoinAccepted(server, c, roomId,
                          handleJoinRoom(Quiet(server), c, roomId,
                                         joinRoom(Quiet(server), roomId, c)))
        ELSE JoinRefused(Quiet(server), c,
                         handleJoinRoom(Quiet(server), c, roomId,
                                        joinRoom(Quiet(server), roomId, c)))

\* No room has more than 4 seats.
AtMostFourSeats ==
  \A roomId \in DOMAIN server.rooms : Len(server.rooms[roomId].players) <= 4

\* A step adds no seat to a room that is no longer waiting.
NoSeatAfterStart ==
  \A roomId \in DOMAIN server.rooms :
    (server.rooms[roomId].status # "waiting" /\ roomId \in DOMAIN server'.rooms) =>
      /\ SeatIds(server'.rooms[roomId]) \subseteq SeatIds(server.rooms[roomId])
      /\ Len(server'.rooms[roomId].players) <= Len(server.rooms[roomId].players)

\* C24 : JOIN_ROOM is accepted if and only if the room exists, its status is
\* waiting and it has fewer than 4 seats; so over any sequence of create, join,
\* leave and start messages a room never has more than 4 seats and no seat is
\* added once its game has started.
C24_JoinGate ==
  /\ [](JoinDecided /\ AtMostFourSeats)
  /\ [][NoSeatAfterStart]_vars

\* A JOIN_ROOM was refused by a room that has 4 seats and whose game has
\* started.
C24_Witness ==
  \E roomId \in DOMAIN server.rooms :
    /\ Len(server.rooms[roomId].players) = 4
    /\ server.rooms[roomId].status = "in_progress"
    /\ \E k \in 1..Len(server.sent) :
         server.sent[k].msg = Error("Failed to join room (full or not found)")


\* The connection is bound to a seat id of an existing room.
InRoom(srv, c) ==
  /\ srv.connections[c].roomId # NoRoom
  /\ srv.connections[c].playerId # NoPlayer
  /\ hasRoom(srv, srv.connections[c].roomId)

\* The sender is the host of its room, the room is waiting and has 3 or 4 seats.
StartGate(srv, c) ==
  /\ InRoom(srv, c)
  /\ srv.rooms[srv.connections[c].roomId].hostId = srv.connections[c].playerId
  /\ srv.rooms[srv.connections[c].roomId].status = "waiting"
  /\ Len(srv.rooms[srv.connections[c].roomId].players) \in {3, 4}

\* The game was created: the room is in progress and its state has one player
\* per seat, in the order of the seats.
GameCreated(gameRoom, after) ==
  /\ after.status = "in_progress"
  /\ after.gameState # NoGame
  /\ after.players = gameRoom.players
  /\ DOMAIN after.gameState.players = 0..(Len(gameRoom.players) - 1)
  /\ \A i \in 1..Len(gameRoom.players) :
       after.gameState.players[i - 1].id = gameRoom.players[i].id

\* The start was refused: no room has changed and the sender alone got one
\* ERROR, the one about the host if it sits in a room it is not the host of.
StartRefused(srv, c, after) ==
  /\ after.rooms = srv.rooms
  /\ Len(after.sent) = 1
  /\ after.sent[1].to = c
  /\ after.sent[1].msg.type = "ERROR"
  /\ (InRoom(srv, c) /\ srv.rooms[srv.connections[c].roomId].hostId # srv.connections[c].playerId)
       => after.sent[1].msg = Error("Only the host can start the game")

\* The boards and decks a start may be dealt.
Deals ==
  { [board |-> generateBoard(ServerScript(sc).terrains, <<ServerScript(sc).tokens>>, <<0>>,
                             ServerScript(sc).portTypes),
     deck |-> ServerScript(sc).deck] : sc \in ServerScenarios }

\* The host of a room, while seated, is the seat that joined first.
HostJoinedFirst ==
  \A roomId \in DOMAIN server.rooms :
    server.rooms[roomId].hostId \in SeatIds(server.rooms[roomId]) =>
      server.rooms[roomId].players[1].id = server.rooms[roomId].hostId

\* C25 : START_GAME creates the game only when the sender is the room's host
\* (its first joiner), the status is waiting and the room has 3 or 4 seats;
\* then the status becomes in_progress and the GameState has exactly one
\* player per seat in join order; in every other case the status and the state
\* are unchanged and the sender gets an ERROR ("Only the host can start the
\* game" for a non-host).
C25_StartGate ==
  /\ HostJoinedFirst
  /\ \A c \in ConnIds : \A deal \in Deals :
       server.connections[c].open =>
         IF StartGate(server, c)
           THEN GameCreated(server.rooms[server.connections[c].roomId],
                            handleStartGame(Quiet(server), c, deal.board, deal.deck)
                              .rooms[server.connections[c].roomId])
           ELSE StartRefused(Quiet(server), c,
                             handleStartGame(Quiet(server), c, deal.board, deal.deck))

\* The host has started the game of a room with 4 seats: every seat was sent
\* GAME_STARTED and the state has the 4 seats as its players.
C25_Witness ==
  \E roomId \in DOMAIN server.rooms :
    /\ server.rooms[roomId].status = "in_progress"
    /\ Len(server.rooms[roomId].players) = 4
    /\ Cardinality(DOMAIN server.rooms[roomId].gameState.players) = 4
    /\ Len(server.sent) = 4
    /\ \A k \in 1..Len(server.sent) : server.sent[k].msg.type = "GAME_STARTED"


\* C26 : vertex canonicalization is idempotent on the raw vertex positions of
\* the 19 board hexes, canonicalizeVertex(canonicalizeVertex(v)) =
\* canonicalizeVertex(v), and the raw references that name the same
\* intersection (a reference and the representations enumerated for it) have
\* the same canonical key.
C26_CanonicalIdempotent ==
  \A v \in RawVertices :
    /\ canonicalizeVertex(canonicalizeVertex(v)) = canonicalizeVertex(v)
    /\ \A w \in allRepresentationsOfVertex(v) \cap RawVertices :
         canonicalizeVertex(w) = canonicalizeVertex(v)


\* C27 : on the 19-hex board every hex maps to exactly 6 distinct canonical
\* vertices and 6 edges, every edge of allEdgeCoords() has 2 distinct
\* canonical endpoints, and every canonical vertex has 2 or 3 adjacent
\* vertices, 2 or 3 adjacent edges and 1 to 3 adjacent hexes.
C27_TableShapes ==
  /\ \A h \in hexSet :
       /\ Cardinality(hexVertices(h)) = 6
       /\ Cardinality(hexEdges(h)) = 6
  /\ \A e \in allEdgeCoords :
       edgeAdjacentVertices(e)[1] # edgeAdjacentVertices(e)[2]
  /\ \A k \in allVertexCoords :
       /\ k \in DOMAIN lookups.vertexToVertices
       /\ Cardinality(lookups.vertexToVertices[k]) \in {2, 3}
       /\ k \in DOMAIN lookups.vertexToEdges
       /\ Cardinality(lookups.vertexToEdges[k]) \in {2, 3}
       /\ k \in DOMAIN lookups.vertexToHexes
       /\ Cardinality(lookups.vertexToHexes[k]) \in {1, 2, 3}


\* What the generator may draw for a board, besides the terrains of a script: for
\* the attempts a shuffle that puts a 6 next to an 8 (drawn once and then a
\* good one, or drawn at every attempt) or a good one at once, and for the
\* repair any index into the 14 candidates, drawn at every pass.
AdjacentShuffle == <<6, 8, 2, 3, 3, 4, 4, 5, 5, 6, 8, 9, 9, 10, 10, 11, 11, 12>>

DealtShuffles(sc) ==
  { <<Script(sc).tokens>>, <<AdjacentShuffle, Script(sc).tokens>>, <<AdjacentShuffle>> }

DrawnSwaps == { <<d>> : d \in 0..13 }

\* C28 : whatever the generator draws, the board generateBoard returns has no
\* two edge-adjacent hexes that both bear a 6 or an 8, also when all 1000
\* resampling attempts fail and the repair loop of at most 100 passes runs.
C28_SixEightConstraint ==
  \A sc \in Scenarios : \A shuffles \in DealtShuffles(sc) : \A swaps \in DrawnSwaps :
    check68Constraint(
      generateBoard(Script(sc).terrains, shuffles, swaps, Script(sc).portTypes).hexes)


\* C29 : dispatch is a function of (state, action) alone: a call with the
\* state and the action of an earlier call (and so with the same values of
\* the generator, which is seeded from the state) returns a state equal in
\* every field, every log entry included, whatever the wall clock reads at
\* the two calls.
C29_Determinism ==
  (earlier # NoCall /\ InGame /\ earlier.state = gameState) =>
    dispatch(gameState, earlier.action, earlier.draws) = earlier.result


\* The development cards in the hands of all players.
HandCards(state) ==
  SumOver(DOMAIN state.players, [i \in DOMAIN state.players |-> Len(state.players[i].devCards)])

\* The development cards played so far: one per play recorded in the log.
PlayedCards(state) ==
  Cardinality({ i \in 1..Len(state.log) : state.log[i].type \in PlayTypes })

\* An accepted BUY_DEV_CARD takes the top card off the deck and puts it at the
\* end of the buyer's hand, stamped with the current turn; no other hand changes.
BuyMovesTop ==
  InGame =>
    \A action \in Repertoire(Script(scenario), "BUY_DEV_CARD", gameState) :
      validateAction(gameState, action).valid =>
        /\ dispatch(gameState, action, NoDraws).state.devCardDeck = Tail(gameState.devCardDeck)
        /\ \A i \in DOMAIN gameState.players :
             dispatch(gameState, action, NoDraws).state.players[i].devCards =
               IF gameState.players[i].id = action.playerId
                 THEN Append(gameState.players[i].devCards,
                             [type |-> gameState.devCardDeck[1],
                              turnAcquired |-> gameState.turnState.turnNumber])
                 ELSE gameState.players[i].devCards

\* C30 as stated : in every reachable state the development cards in all hands
\* plus the cards left in devCardDeck are 25; BUY_DEV_CARD moves exactly the
\* top card of the deck into the buyer's hand stamped with the current
\* turnNumber.
C30_HandsAndDeck ==
  /\ Started => HandCards(gameState) + Len(gameState.devCardDeck) = 25
  /\ BuyMovesTop

\* C30 : in every reachable state the development cards in all hands, the
\* cards left in devCardDeck and the cards played so far are 25 together (a
\* played card leaves the hand and goes nowhere); BUY_DEV_CARD moves exactly
\* the top card of the deck into the buyer's hand stamped with the current
\* turnNumber.
C30_DevCardConservation ==
  /\ Started =>
       HandCards(gameState) + Len(gameState.devCardDeck) + PlayedCards(gameState) = 25
  /\ BuyMovesTop

\* Cards were bought and one of them was played: hands and deck hold fewer
\* than 25 cards.
C30_Witness ==
  /\ Started
  /\ PlayedCards(gameState) > 0
  /\ Len(gameState.devCardDeck) < 25
  /\ HandCards(gameState) + Len(gameState.devCardDeck) < 25


\* The knight counts a game can show before a knight is played.
KnightTables(state) == [DOMAIN state.players -> 2..4]

\* The PLAY_KNIGHT messages of the script that the state accepts.
KnightPlays ==
  { action \in Repertoire(Script(scenario), "PLAY_KNIGHT", gameState) :
      validateAction(gameState, action).valid }

\* The knights played by the player at index i.
knightsOf(state, i) == state.players[i].knightsPlayed

\* The player at index i is the only one with the most knights.
SoleLargest(state, i) ==
  \A j \in DOMAIN state.players \ {i} : knightsOf(state, j) < knightsOf(state, i)

\* The largest-army rules between the holder before a knight is played
\* (an index, or none) and the state after it.
ArmyRules(holder, after) ==
  /\ \A i \in armyHoldersOf(after) : knightsOf(after, i) >= 3
  /\ (/\ holder \in DOMAIN after.players
      /\ knightsOf(after, holder) >= 3
      /\ \A j \in DOMAIN after.players : knightsOf(after, j) <= knightsOf(after, holder))
       => armyHoldersOf(after) = {holder}
  /\ \A j \in DOMAIN after.players :
       (/\ holder \in DOMAIN after.players
        /\ knightsOf(after, j) > knightsOf(after, holder)
        /\ knightsOf(after, j) >= 3
        /\ SoleLargest(after, j))
         => armyHoldersOf(after) = {j}
  /\ \A i \in armyHoldersOf(after) \ {holder} :
       knightsOf(after, i) >= 3 /\ SoleLargest(after, i)

\* C31 : the largest army is recomputed after every played knight, whatever
\* the knight counts and the holder before it: a player holds the bonus only
\* with knightsPlayed >= 3; the holder keeps it while no other player has
\* strictly more knights; it moves to a player who strictly surpasses the
\* holder and is the only maximum; a player without the bonus gets it only as
\* the only maximum with at least 3 knights.
C31_LargestArmy ==
  InGame =>
    /\ \A i \in armyHoldersOf(gameState) : knightsOf(gameState, i) >= 3
    /\ \A action \in KnightPlays :
         \A knights \in KnightTables(gameState) :
           \A holder \in DOMAIN gameState.players \cup {NoPlayer} :
             LET before == WithArmies(gameState, knights, holder)
                 after == dispatch(before, action, NoDraws).state
             IN /\ \A i \in DOMAIN after.players :
                     knightsOf(after, i) = knights[i]
                       + (IF after.players[i].id = action.playerId THEN 1 ELSE 0)
                /\ ArmyRules(holder, after)

\* C31 witness : a knight can be played, and played by a player with 3 knights
\* against a holder with 3 it moves the bonus from the holder to the player.
C31_Witness ==
  /\ InGame
  /\ \E action \in KnightPlays :
       \E holder \in DOMAIN gameState.players :
         LET before == WithArmies(gameState, [i \in DOMAIN gameState.players |-> 3], holder)
             after == dispatch(before, action, NoDraws).state
         IN /\ gameState.players[holder].id # action.playerId
            /\ \E i \in armyHoldersOf(after) :
                 after.players[i].id = action.playerId /\ knightsOf(after, i) = 4


\* Between two states of a game every building stays where it is with its
\* owner (a settlement may have become a city), and every road stays.
OwnershipKept ==
  (gameState # NoGame /\ gameState' # NoGame) =>
    /\ \A v \in DOMAIN gameState.board.buildings :
         /\ v \in DOMAIN gameState'.board.buildings
         /\ gameState'.board.buildings[v].playerId = gameState.board.buildings[v].playerId
         /\ gameState.board.buildings[v].type = "city"
              => gameState'.board.buildings[v].type = "city"
    /\ \A e \in DOMAIN gameState.board.roads :
         /\ e \in DOMAIN gameState'.board.roads
         /\ gameState'.board.roads[e] = gameState.board.roads[e]

\* The seats of the game in the room.
SeatsInGame == { p \in 0..3 : hasPlayer(gameState, p) }

\* No seat gets a settlement accepted on a vertex that bears a building, nor a
\* road on an edge that bears a road, and the accepted placements of the
\* script put their piece under a key that bore none.
NoPieceOnOccupied ==
  InGame =>
    /\ \A p \in SeatsInGame :
         /\ \A v \in DOMAIN gameState.board.buildings :
              ~validateAction(gameState,
                 [type |-> "PLACE_SETTLEMENT", playerId |-> p, vertex |-> v]).valid
         /\ \A e \in DOMAIN gameState.board.roads :
              ~validateAction(gameState,
                 [type |-> "PLACE_ROAD", playerId |-> p, edge |-> e]).valid
    /\ \A action \in Repertoire(Script(scenario), "PLACE_SETTLEMENT", gameState) :
         validateAction(gameState, action).valid =>
           canonicalizeVertex(action.vertex) \notin DOMAIN gameState.board.buildings
    /\ \A action \in Repertoire(Script(scenario), "PLACE_ROAD", gameState) :
         validateAction(gameState, action).valid =>
           action.edge \notin DOMAIN gameState.board.roads

\* C32 : ownership is monotone over any action sequence: a vertex that holds a
\* building of a player holds a building of that player in every later state
\* (a settlement may become a city, never the reverse), an edge that holds a
\* road holds that road in every later state, and no accepted action places a
\* piece on an occupied vertex or edge.
C32_OwnershipMonotone == [][OwnershipKept]_vars /\ []NoPieceOnOccupied


\* The edges that end at a vertex: those with the vertex among their two ends.
EdgesAt(v) == { e \in allEdgeCoords : v \in SeqToSet(edgeAdjacentVertices(e)) }

\* The end v of an edge connects it to a player's network: the player owns the
\* building on v, or v bears no building and another edge at v bears a road of
\* the player.
ConnectsThrough(state, playerId, edge, v) ==
  IF v \in DOMAIN state.board.buildings
    THEN state.board.buildings[v].playerId = playerId
    ELSE \E e \in EdgesAt(v) \ {edge} :
           /\ e \in DOMAIN state.board.roads
           /\ state.board.roads[e].playerId = playerId

\* C33 : in the main phase PLACE_ROAD is accepted only on a valid unoccupied
\* edge with an endpoint v such that the player owns the building on v, or v
\* carries no building of another player and some other edge at v carries a
\* road of the player; an endpoint with another player's building never
\* connects, even when the player's own road ends there.
C33_RoadConnectivity ==
  InMain =>
    \A p \in SeatsInGame : \A edge \in allEdgeCoords :
      validateAction(gameState, [type |-> "PLACE_ROAD", playerId |-> p, edge |-> edge]).valid
        => /\ edge \notin DOMAIN gameState.board.roads
           /\ \E v \in SeqToSet(edgeAdjacentVertices(edge)) :
                ConnectsThrough(gameState, p, edge, v)


\* Every player and the bank hold no negative number of cards of any resource.
NonNegative(state) ==
  /\ \A i \in DOMAIN state.players : \A r \in ResourceTypes :
       state.players[i].resources[r] >= 0
  /\ \A r \in ResourceTypes : state.bankResources[r] >= 0

\* The bundle with one more entry set.
With(bundle, resource, n) == [bundle EXCEPT ![resource] = n]

\* The BANK_TRADE messages of a seat at its own rate, with bundles whose other
\* entries are 0 or a negative number.
SignedBankTrades(state, p) ==
  { [type |-> "BANK_TRADE", playerId |-> p, giving |-> t[1], receiving |-> t[2]] :
      t \in UNION { { <<Only(g, RateOf(getPlayer(state, p), g)), Only(r, 1)>>,
                      <<With(Only(g, RateOf(getPlayer(state, p), g)), x, -20), Only(r, 1)>>,
                      <<Only(g, RateOf(getPlayer(state, p), g)), With(Only(r, 1), x, -1)>> } :
                    <<g, r, x>> \in { s \in ResourceTypes \X ResourceTypes \X ResourceTypes :
                                        s[1] # s[2] /\ s[3] \notin {s[1], s[2]} } } }

\* The messages with bundle fields that the seats can send in the state.
BundleMessages ==
  UNION { SignedBankTrades(gameState, p) : p \in SeatsInGame }
    \cup Repertoire(Script(scenario), "BANK_TRADE", gameState)
    \cup Repertoire(Script(scenario), "DISCARD_RESOURCES", gameState)
    \cup Repertoire(Script(scenario), "PROPOSE_TRADE", gameState)

\* The cards in the hand of a seat.
HandTotal(state, p) == bundleTotal(getPlayer(state, p).resources)

\* C34 : in every reachable state every player's count of each resource and
\* the bank's count of each resource are >= 0, whatever integers, negative
\* ones included, the bundle fields of BANK_TRADE, DISCARD_RESOURCES and
\* PROPOSE_TRADE carry; and no accepted bank trade or discard leaves the
\* sender with as many cards as before or more.
C34_NonNegativeHoldings ==
  /\ Started => NonNegative(gameState)
  /\ InGame =>
       \A action \in BundleMessages :
         validateAction(gameState, action).valid =>
           /\ NonNegative(dispatch(gameState, action, NoDraws).state)
           /\ action.type \in {"BANK_TRADE", "DISCARD_RESOURCES"} =>
                HandTotal(dispatch(gameState, action, NoDraws).state, action.playerId)
                  < HandTotal(gameState, action.playerId)


\* The place of a resource in RESOURCE_TYPES.
ResourceIndex(r) == CHOOSE i \in 1..Len(RESOURCE_TYPES) : RESOURCE_TYPES[i] = r

\* The first n cards of a hand, in the order of RESOURCE_TYPES.
FirstCards(hand, n) ==
  [r \in ResourceTypes |->
     LET before == SumOver({ k \in ResourceTypes : ResourceIndex(k) < ResourceIndex(r) }, hand)
         rest == IF n > before THEN n - before ELSE 0
     IN IF hand[r] < rest THEN hand[r] ELSE rest]

\* Every message a seat can send that does not depend on what the script
\* foresees: a road on any edge, a settlement on any vertex, the robber on any
\* hex, the discard of the first cards owed, and the plain messages.
FreeMoves(state) ==
  UNION { { [type |-> "PLACE_ROAD", playerId |-> p, edge |-> e] : e \in allEdgeCoords }
            \cup { [type |-> "PLACE_SETTLEMENT", playerId |-> p, vertex |-> v] :
                     v \in allVertexCoords }
            \cup { [type |-> "MOVE_ROBBER", playerId |-> p, hex |-> h] : h \in hexSet }
            \cup { [type |-> "DISCARD_RESOURCES", playerId |-> p,
                    resources |-> FirstCards(getPlayer(state, p).resources,
                                             state.turnState.pendingDiscards[p])] :
                     q \in { p } \cap DOMAIN state.turnState.pendingDiscards }
            \cup { [type |-> t, playerId |-> p] : t \in {"ROLL_DICE", "END_TURN"} } :
          p \in { q \in 0..3 : hasPlayer(state, q) } }

\* The current player has an edge on which PLACE_ROAD is accepted.
RoadAccepted(state) ==
  \E e \in allEdgeCoords :
    validateAction(state, [type |-> "PLACE_ROAD", playerId |-> getCurrentPlayer(state).id,
                           edge |-> e]).valid

\* C35 : in every reachable state whose phase is not GAME_OVER some player has
\* an action that validateAction accepts; while roadBuildingRoadsLeft > 0 the
\* current player has an edge on which PLACE_ROAD is accepted; and in SETUP
\* sub-phase PLACE_ROAD a free edge touching lastSettlementVertex exists, on
\* which the current player's road is accepted.
C35_NoDeadlock ==
  (Started /\ gameState.turnState.phase # "GAME_OVER") =>
    /\ \E action \in AnyMessages \cup FreeMoves(gameState) :
         validateAction(gameState, action).valid
    /\ (gameState.turnState.phase = "MAIN" /\ gameState.turnState.roadBuildingRoadsLeft > 0)
         => RoadAccepted(gameState)
    /\ (gameState.turnState.phase = "SETUP" /\ gameState.turnState.setupSubPhase = "PLACE_ROAD")
         => /\ \E e \in allEdgeCoords \ DOMAIN gameState.board.roads :
                 gameState.turnState.lastSettlementVertex \in SeqToSet(edgeAdjacentVertices(e))
            /\ RoadAccepted(gameState)


\* The actions of a turn that come after its roll.
AfterRollTypes ==
  {"END_TURN", "PLACE_SETTLEMENT", "PLACE_ROAD", "PLACE_CITY", "BUY_DEV_CARD",
   "PROPOSE_TRADE", "CONFIRM_TRADE", "BANK_TRADE"}

\* C36 : every turn contains a roll: in every reachable state of the main
\* phase the sub-phase TRADE_BUILD_PLAY implies that diceRoll is not null, and
\* END_TURN and every build, buy or trade action are accepted only when the
\* dice of the turn have been rolled.
C36_RollInEveryTurn ==
  InMain =>
    /\ gameState.turnState.mainSubPhase = "TRADE_BUILD_PLAY"
         => gameState.turnState.diceRoll # NoDice
    /\ \A action \in AnyMessages :
         (action.type \in AfterRollTypes /\ validateAction(gameState, action).valid)
           => gameState.turnState.diceRoll # NoDice


\* The connection the seat is bound to in a server.
ConnectionOfSeat(srv, s) == srv.rooms[s[1]].players[s[2]].connection

\* In every room with a game a seat bound to an open connection has its
\* player's connected flag set.
BoundSeatsConnected(srv) ==
  \A roomId \in DOMAIN srv.rooms :
    srv.rooms[roomId].gameState # NoGame =>
      \A i \in 1..Len(srv.rooms[roomId].players) :
        (/\ srv.rooms[roomId].players[i].connection # NoConnection
         /\ srv.connections[srv.rooms[roomId].players[i].connection].open
         /\ hasPlayer(srv.rooms[roomId].gameState, srv.rooms[roomId].players[i].id))
          => getPlayer(srv.rooms[roomId].gameState,
                       srv.rooms[roomId].players[i].id).connected

\* C37 : a superseded connection cannot detach a seat: when a seat is bound to
\* an open connection c1, a RECONNECT with the seat's token binds it to the
\* connection c2, and c1 closes afterwards, the seat stays bound to c2; and
\* the player's connected flag is set whenever the connection the seat is
\* bound to is open.
C37_SupersededConnection ==
  /\ BoundSeatsConnected(server)
  /\ \A c2 \in ConnIds : \A token \in Tokens : \A s \in SeatsOfToken(server, token) :
       (/\ server.connections[c2].open
        /\ ConnectionOfSeat(server, s) \notin {NoConnection, c2}
        /\ server.connections[ConnectionOfSeat(server, s)].open
        /\ ConnectionOfSeat(handleReconnect(Quiet(server), c2, token), s) = c2)
         => /\ ConnectionOfSeat(
                 handleClose(handleReconnect(Quiet(server), c2, token),
                             ConnectionOfSeat(server, s)), s) = c2
            /\ BoundSeatsConnected(
                 handleClose(handleReconnect(Quiet(server), c2, token),
                             ConnectionOfSeat(server, s)))


\* The ids of the players of a game.
PlayerIds(state) == { state.players[i].id : i \in DOMAIN state.players }

\* In every room whose game is running the seats are the players of the game.
SeatsArePlayers(srv) ==
  \A roomId \in DOMAIN srv.rooms :
    srv.rooms[roomId].status = "in_progress" =>
      SeatIds(srv.rooms[roomId]) = PlayerIds(srv.rooms[roomId].gameState)

\* Every room whose game is running is still there afterwards, with its seats.
SeatsKept(before, after) ==
  \A roomId \in DOMAIN before.rooms :
    before.rooms[roomId].status = "in_progress" =>
      /\ roomId \in DOMAIN after.rooms
      /\ SeatIds(after.rooms[roomId]) = SeatIds(before.rooms[roomId])

\* C38 : seats are stable during play: while a room's status is in_progress
\* the ids of the room's seats and the ids of GameState.players are the same
\* set, and no LEAVE_ROOM, JOIN_ROOM or CREATE_ROOM message and no disconnect
\* removes a seat of a running game.
C38_SeatsStable ==
  /\ SeatsArePlayers(server)
  /\ \A c \in ConnIds :
       /\ SeatsKept(server, handleLeaveRoom(Quiet(server), c))
       /\ SeatsKept(server, handleClose(Quiet(server), c))
       /\ \A roomId \in NamedRooms :
            SeatsKept(server, handleJoinRoom(Quiet(server), c, roomId,
                                             joinRoom(Quiet(server), roomId, c)))
       /\ \A roomId \in NamedRooms \ DOMAIN server.rooms :
            SeatsKept(server, handleCreateRoom(Quiet(server), c, roomId,
                                               createRoom(Quiet(server), roomId, c)))


\* The host of the room is one of its seats.
HostSeated(gameRoom) == gameRoom.hostId \in SeatIds(gameRoom)

\* C39 : a waiting room can always be started by someone in it: in every room
\* with status waiting and at least one seat, hostId is the id of one of the
\* current seats, after every sequence of CREATE_ROOM, JOIN_ROOM and LEAVE_ROOM
\* messages (the first joiner leaving included); so once 3 or 4 players are
\* seated, the host seat's START_GAME passes the host check.
C39_HostIsSeated ==
  /\ \A roomId \in DOMAIN server.rooms :
       (server.rooms[roomId].status = "waiting" /\ Len(server.rooms[roomId].players) >= 1)
         => HostSeated(server.rooms[roomId])
  /\ \A c \in ConnIds :
       (InRoom(server, c) /\ server.connections[c].open
          /\ server.rooms[server.connections[c].roomId].status = "waiting") =>
         LET after == handleLeaveRoom(Quiet(server), c)
             roomId == server.connections[c].roomId
         IN (roomId \in DOMAIN after.rooms /\ Len(after.rooms[roomId].players) >= 1)
              => HostSeated(after.rooms[roomId])


\* The player's pieces of one kind standing on the board.
ownBuildings(state, playerId, kind) ==
  Cardinality({ v \in DOMAIN state.board.buildings :
                  /\ state.board.buildings[v].playerId = playerId
                  /\ state.board.buildings[v].type = kind })

ownRoads(state, playerId) ==
  Cardinality({ e \in DOMAIN state.board.roads : state.board.roads[e].playerId = playerId })

\* The three counters of a player agree with the board and are not negative.
PiecesAgree(state, playerId) ==
  LET player == getPlayer(state, playerId)
  IN /\ player.settlementsRemaining
          = INITIAL_PIECES.settlements - ownBuildings(state, playerId, "settlement")
     /\ player.citiesRemaining = INITIAL_PIECES.cities - ownBuildings(state, playerId, "city")
     /\ player.roadsRemaining = INITIAL_PIECES.roads - ownRoads(state, playerId)
     /\ player.settlementsRemaining >= 0
     /\ player.citiesRemaining >= 0
     /\ player.roadsRemaining >= 0

\* C40 : piece counts agree with the board: for every player of every reachable
\* state, settlementsRemaining = 5 - (own settlements on the board),
\* citiesRemaining = 4 - (own cities), roadsRemaining = 15 - (own roads), all
\* three >= 0; an accepted PLACE_CITY returns one settlement piece and uses one
\* city piece.
C40_PieceCounts ==
  Started =>
    /\ \A p \in DOMAIN gameState.players : PiecesAgree(gameState, p)
    /\ \A action \in { a \in AnyMessages : a.type = "PLACE_CITY" } :
         validateAction(gameState, action).valid =>
           LET after == dispatch(gameState, action, NoDraws).state
               before == getPlayer(gameState, action.playerId)
           IN /\ getPlayer(after, action.playerId).settlementsRemaining
                   = before.settlementsRemaining + 1
              /\ getPlayer(after, action.playerId).citiesRemaining = before.citiesRemaining - 1
              /\ \A p \in DOMAIN after.players : PiecesAgree(after, p)

\* A player has a city on the board, a settlement piece back in the supply and
\* roads beyond the two of the setup.
C40_Witness ==
  /\ Started
  /\ \E p \in DOMAIN gameState.players :
       /\ ownBuildings(gameState, p, "city") >= 1
       /\ ownRoads(gameState, p) >= 3
       /\ getPlayer(gameState, p).citiesRemaining = INITIAL_PIECES.cities - 1

====
